---- MODULE Spec2Model ----
(***************************************************************************)
(* Multi-Model Gate (src/unnamed/part_000) and the robust estimators it    *)
(* calls (src/estimators.ts).                                              *)
(*                                                                         *)
(* Numbers are fixed point: the integer n stands for the real n / Scale.   *)
(* A compound arithmetic expression of the source is evaluated exactly and *)
(* rounded once (toward zero).  Samples have dimension 1, so a mean is a   *)
(* one-element sequence and a covariance a 1 x 1 matrix; the heap keeps    *)
(* the identity of every ModelState object, mean array and covariance      *)
(* matrix, so that sharing between two model states is representable.      *)
(***************************************************************************)
EXTENDS Integers, Sequences, FiniteSets, TLC

\* ------------------------------------------------------------------------
\* State
\* ------------------------------------------------------------------------
VARIABLES
  goldenSet,           \* this.goldenSet
  alertSink,           \* how the alert callback behaves: "returns" or "throws"
  objs,                \* heap of ModelState objects: address -> fields
  arrs,                \* heap of number arrays (a mean, a covariance row)
  adaptiveModel,       \* this.adaptiveModel, an address in objs
  referenceModel,      \* this.referenceModel, an address in objs
  checkpoints,         \* this.checkpoints, a sequence of addresses in objs
  metrics,             \* this.metrics
  lastBreakerTrigger,  \* this.lastBreakerTrigger: breaker name -> instant
  now,                 \* the wall clock, in seconds
  calls,               \* robustUpdate calls suspended at an await, in order
  result,              \* what the last operation did, as its caller sees it
  merges,              \* history: number of step-7 merges so far
  streak,              \* history: the current run of corridor failures
  captures             \* history: how many snapshots were captured so far, and
                       \* as which capture each snapshot of the history was taken

\* ------------------------------------------------------------------------
\* Bounds of the model
\* ------------------------------------------------------------------------
Scale == 1000

\* ------------------------------------------------------------------------
\* Arithmetic helpers
\* ------------------------------------------------------------------------
Abs(a) == IF a < 0 THEN -a ELSE a

Sgn(a) == IF a < 0 THEN -1 ELSE 1

Min2(a, b) == IF a <= b THEN a ELSE b

Max2(a, b) == IF a >= b THEN a ELSE b

\* a / b rounded toward zero (b # 0)
Quot(a, b) == Sgn(a) * Sgn(b) * (Abs(a) \div Abs(b))

RECURSIVE SqrtSearch(_, _, _)
SqrtSearch(n, lo, hi) ==
  IF lo >= hi THEN lo
  ELSE LET mid == (lo + hi + 1) \div 2
       IN IF mid * mid <= n THEN SqrtSearch(n, mid, hi)
          ELSE SqrtSearch(n, lo, mid - 1)

\* Math.sqrt on integers: the largest r with r * r <= n
ISqrt(n) == SqrtSearch(n, 0, Min2(n, 46340))

\* Math.sqrt of a fixed-point number, as a fixed-point number
FxSqrt(x) == ISqrt(x * Scale)

\* A sequence given as a function, as an explicit tuple of its elements
AsSeq(f) == f \o <<>>

RECURSIVE SumSeq(_)
SumSeq(s) == IF s = <<>> THEN 0 ELSE Head(s) + SumSeq(Tail(s))

\* Math.tanh at 0, 0.25, ..., 3.0 in thousandths
TanhMilli == <<0, 245, 462, 635, 762, 848, 905, 941, 964, 978, 987, 992, 995>>

\* Math.tanh of an argument given in units of 1 / (Scale * Scale), result in
\* the same units; linear between the tabulated points, argument in [0, 3].
TanhFine(argFine) ==
  LET step == (Scale * Scale) \div 4
      k == Min2(argFine \div step, 11)
      lo == (TanhMilli[k + 1] * Scale) \div 1000
      hi == (TanhMilli[k + 2] * Scale) \div 1000
  IN lo * Scale + ((hi - lo) * (argFine - k * step)) \div (step \div Scale)

\* Math.log2 of 1..8 in thousandths
Log2Milli == <<0, 1000, 1585, 2000, 2322, 2585, 2807, 3000>>

Log2Fx(k) == (Log2Milli[k] * Scale) \div 1000

\* Math.log of a positive fixed-point number:
\* ln x = 2 (z + z^3/3 + z^5/5 + z^7/7), z = (x - 1) / (x + 1)
LnFx(x) ==
  LET z == Quot((x - Scale) * Scale, x + Scale)
      z2 == Quot(z * z, Scale)
      z3 == Quot(z2 * z, Scale)
      z5 == Quot(z3 * z2, Scale)
      z7 == Quot(z5 * z2, Scale)
  IN 2 * z + Quot(2 * z3, 3) + Quot(2 * z5, 5) + Quot(2 * z7, 7)

\* Array.prototype.sort with comparator (a, b) => key[a] - key[b] (stable):
\* the indices 1..k ordered by ascending key, ties in index order.
RECURSIVE InsertByKey(_, _, _)
InsertByKey(sorted, i, key) ==
  IF sorted = <<>> THEN <<i>>
  ELSE IF key[Head(sorted)] <= key[i]
       THEN <<Head(sorted)>> \o InsertByKey(Tail(sorted), i, key)
       ELSE <<i>> \o sorted

RECURSIVE SortIdx(_, _)
SortIdx(k, key) ==
  IF k = 0 THEN <<>> ELSE InsertByKey(SortIdx(k - 1, key), k, key)

\* ------------------------------------------------------------------------
\* RobustEstimators (src/estimators.ts)
\* ------------------------------------------------------------------------
Dim(data) == Len(data[1])

\* The middle of a column already sorted
MedianOfSorted(sorted) ==
  LET mid == Len(sorted) \div 2
  IN IF Len(sorted) % 2 = 0
     THEN Quot(sorted[mid] + sorted[mid + 1], 2)
     ELSE sorted[mid + 1]

\* column.sort((a, b) => a - b)
SortColumn(column, order) == AsSeq([i \in 1..Len(column) |-> column[order[i]]])

ColumnMedian(column) ==
  MedianOfSorted(SortColumn(column, SortIdx(Len(column), column)))

coordinateMedian(data) ==
  AsSeq([j \in 1..Dim(data) |->
           ColumnMedian(AsSeq([i \in 1..Len(data) |-> data[i][j]]))])

mean(data) ==
  AsSeq([j \in 1..Dim(data) |->
     Quot(SumSeq([i \in 1..Len(data) |-> data[i][j]]), Len(data))])

\* The number NaN, held as a number outside the range of every value that
\* is computed
NaN == 0 - 2147483647

IsNaN(x) == x = NaN

\* The source divides by n - 1: the covariance of one sample about itself is
\* 0 / 0, that is NaN.  (One sample about another point, x / 0, does not
\* arise: mrcd takes the covariance of a subset about the subset's mean.)
sampleCovariance(data, mu) ==
  AsSeq([i \in 1..Dim(data) |-> AsSeq([j \in 1..Dim(data) |->
     IF Len(data) = 1 THEN NaN
     ELSE Quot(SumSeq([k \in 1..Len(data) |->
                         (data[k][i] - mu[i]) * (data[k][j] - mu[j])]),
               Scale * (Len(data) - 1))])])

\* ml-matrix inverse() of a 1 x 1 matrix: LU solve, which throws
\* 'LU matrix is singular' on an exactly zero pivot.
RE_isSingular(A) == A[1][1] = 0

RE_matrixInverse(A) == << <<Quot(Scale * Scale, A[1][1])>> >>

matrixVectorMultiply(A, v) ==
  AsSeq([i \in 1..Len(A) |->
     Quot(SumSeq([j \in 1..Len(v) |-> A[i][j] * v[j]]), Scale)])

Dot(u, v) == Quot(SumSeq([i \in 1..Len(u) |-> u[i] * v[i]]), Scale)

\* Defined when Sigma is not singular; NaN when Sigma is NaN (inverse() of
\* NaN is NaN, and so are the products, Math.max and Math.sqrt)
mahalanobisDistance(x, mu, Sigma) ==
  LET residual == AsSeq([i \in 1..Len(x) |-> x[i] - mu[i]])
      temp == matrixVectorMultiply(RE_matrixInverse(Sigma), residual)
      dist2 == Dot(residual, temp)
  IN IF IsNaN(Sigma[1][1]) THEN NaN ELSE FxSqrt(Max2(0, dist2))

\* alpha * Sigma[i][j] + (1 - alpha) * SigmaPrior[i][j]; a product with NaN
\* is NaN also when the other factor is 0
shrinkCovariance(Sigma, SigmaPrior, alpha) ==
  AsSeq([i \in 1..Len(Sigma) |-> AsSeq([j \in 1..Len(Sigma) |->
     IF IsNaN(Sigma[i][j]) \/ IsNaN(SigmaPrior[i][j]) THEN NaN
     ELSE Quot(alpha * Sigma[i][j] + (Scale - alpha) * SigmaPrior[i][j], Scale)])])

\* catoniMean's maxIters default
CatoniMaxIters == 10

\* The weight of the plain mean
CatoniWeightPlain(norm, c) == Scale

\* Catoni weight of a residual norm: tanh(min(norm / c, 3)) / norm, and 1
\* for a zero norm.  c is a plain number (2 in the gate).
CatoniWeight(norm, c) ==
  IF norm = 0 THEN Scale
  ELSE TanhFine(Min2((norm * Scale) \div c, 3 * Scale * Scale)) \div norm

\* data.map(x => x.map((xi, i) => xi - mu[i]))
Residuals(data, mu) ==
  AsSeq([i \in 1..Len(data) |-> AsSeq([j \in 1..Len(mu) |-> data[i][j] - mu[j]])])

\* The Catoni weights of the residuals
CatoniWeights(residuals, c) ==
  AsSeq([i \in 1..Len(residuals) |->
           CatoniWeight(FxSqrt(Dot(residuals[i], residuals[i])), c)])

\* The weighted update of one iteration
CatoniUpdate(mu, residuals, weights, weightSum) ==
  AsSeq([j \in 1..Len(mu) |->
     mu[j] + (IF weightSum = 0 THEN 0
              ELSE Quot(SumSeq([i \in 1..Len(residuals) |->
                                  weights[i] * residuals[i][j]]),
                        weightSum))])

CatoniReweight(mu, residuals, weights) ==
  CatoniUpdate(mu, residuals, weights, SumSeq(weights))

\* One iteration of catoniMean
CatoniStep(data, mu, c) ==
  CatoniReweight(mu, Residuals(data, mu), CatoniWeights(Residuals(data, mu), c))

\* The loop of catoniMean; it ends early once an iteration moves nothing
RECURSIVE CatoniLoop(_, _, _, _)
CatoniNext(data, mu, next, c, iter) ==
  IF next = mu THEN next ELSE CatoniLoop(data, next, c, iter + 1)

CatoniLoop(data, mu, c, iter) ==
  IF iter >= CatoniMaxIters THEN mu
  ELSE CatoniNext(data, mu, CatoniStep(data, mu, c), c, iter)

catoniMean(data, c) == CatoniLoop(data, coordinateMedian(data), c, 0)

\* A loop that never leaves early
CatoniIterationsToTheEnd(data, mu, c, iter) == CatoniMaxIters

\* The number of iterations the loop of catoniMean has performed when it
\* ends, from iteration iter on with the mean mu: the loop is left after the
\* iteration whose update is below 1e-6 (zero at this resolution), or when
\* iter reaches maxIters
RECURSIVE CatoniIterations(_, _, _, _)
CatoniIterations(data, mu, c, iter) ==
  IF iter >= CatoniMaxIters THEN iter
  ELSE CHOOSE n \in {IF next = mu THEN iter + 1
                     ELSE CatoniIterations(data, next, c, iter + 1) :
                       next \in {CatoniStep(data, mu, c)}} : TRUE

\* mrcd's fixed number of trimming rounds
MrcdRounds == 10

\* data.map(x => mahalanobisDistance(x, mu, Sigma))
Distances(data, mu, Sigma) ==
  AsSeq([i \in 1..Len(data) |-> mahalanobisDistance(data[i], mu, Sigma)])

\* The h samples that come first in the given order
TakeFirst(data, order, h) == AsSeq([i \in 1..h |-> data[order[i]]])

\* The mean of a subset and its covariance shrunk toward the prior
MrcdFit(subset, mu, alpha, priorCov) ==
  [mean |-> mu,
   covariance |-> shrinkCovariance(sampleCovariance(subset, mu), priorCov, alpha)]

MrcdRefit(subset, alpha, priorCov) == MrcdFit(subset, mean(subset), alpha, priorCov)

\* One trimming round from the estimate fit
MrcdRound(data, alpha, priorCov, h, fit) ==
  MrcdRefit(TakeFirst(data,
                      SortIdx(Len(data), Distances(data, fit.mean, fit.covariance)),
                      h),
            alpha, priorCov)

\* The rounds of mrcd; thrown is set when the inversion inside
\* mahalanobisDistance fails.  A round that reproduces its input estimate
\* is a fixed point of the remaining rounds, which are then skipped.
RECURSIVE MrcdLoop(_, _, _, _, _, _)
MrcdNext(data, alpha, priorCov, h, fit, next, iter) ==
  IF next = fit
  THEN [thrown |-> FALSE, mean |-> next.mean, covariance |-> next.covariance]
  ELSE MrcdLoop(data, alpha, priorCov, h, next, iter + 1)

MrcdLoop(data, alpha, priorCov, h, fit, iter) ==
  IF iter >= MrcdRounds
  THEN [thrown |-> FALSE, mean |-> fit.mean, covariance |-> fit.covariance]
  ELSE IF RE_isSingular(fit.covariance)
  THEN [thrown |-> TRUE, mean |-> fit.mean, covariance |-> fit.covariance]
  ELSE MrcdNext(data, alpha, priorCov, h, fit,
                MrcdRound(data, alpha, priorCov, h, fit), iter)

MrcdStart(data, mu) == [mean |-> mu, covariance |-> sampleCovariance(data, mu)]

\* The trimming rounds mrcd has completed when it ends, from round iter on
\* with the estimate fit: every round is carried out, and the round whose
\* inversion fails (mahalanobisDistance, line 172) throws
RECURSIVE MrcdTrimming(_, _, _, _, _, _)
MrcdTrimming(data, alpha, priorCov, h, fit, iter) ==
  IF iter >= MrcdRounds THEN [rounds |-> iter, thrown |-> FALSE]
  ELSE IF RE_isSingular(fit.covariance) THEN [rounds |-> iter, thrown |-> TRUE]
  ELSE CHOOSE t \in {MrcdTrimming(data, alpha, priorCov, h, next, iter + 1) :
                       next \in {MrcdRound(data, alpha, priorCov, h, fit)}} : TRUE

\* mrcd(data, alpha, priorCov) with the default h = floor(n / 2)
mrcd(data, alpha, priorCov) ==
  MrcdLoop(data, alpha, priorCov, Len(data) \div 2,
           MrcdStart(data, coordinateMedian(data)), 0)

Identity(d) ==
  AsSeq([i \in 1..d |-> AsSeq([j \in 1..d |-> IF i = j THEN Scale ELSE 0])])

\* A clip that shrinks the sample itself instead of its residual
influenceClipAboutOrigin(data, mu, Sigma, radius) ==
  AsSeq([k \in 1..Len(data) |->
     LET x == data[k]
         dist == mahalanobisDistance(x, mu, Sigma)
     IN IF dist <= radius THEN x
        ELSE AsSeq([i \in 1..Len(x) |-> Quot(x[i] * radius, dist)])])

\* A clip that puts every sample away from mu at the radius, also the
\* samples within it
influenceClipProjecting(data, mu, Sigma, radius) ==
  AsSeq([k \in 1..Len(data) |->
     LET x == data[k]
         dist == mahalanobisDistance(x, mu, Sigma)
     IN IF dist = 0 THEN x
        ELSE AsSeq([i \in 1..Len(x) |->
                      mu[i] + Quot((x[i] - mu[i]) * radius, dist)])])

\* Defined when Sigma is not singular and not NaN; the 1e-9 added to the
\* divisor is below the resolution of the fixed-point numbers
influenceClip(data, mu, Sigma, clipRadius) ==
  AsSeq([k \in 1..Len(data) |->
     LET x == data[k]
         dist == mahalanobisDistance(x, mu, Sigma)
     IN IF dist <= clipRadius THEN x
        ELSE AsSeq([i \in 1..Len(x) |->
                      mu[i] + Quot((x[i] - mu[i]) * clipRadius, dist)])])

\* SigmaR^{-1/2} SigmaA SigmaR^{-1/2} of 1 x 1 matrices is SigmaA / SigmaR,
\* its only eigenvalue (SigmaR is clamped to a positive floor by matrixPower).
spectralCorridorCheck(SigmaA, SigmaR, tauSigma) ==
  LET M == Quot(SigmaA[1][1] * Scale, Max2(SigmaR[1][1], 1))
  IN M >= Scale - tauSigma /\ M <= Scale + tauSigma

\* ------------------------------------------------------------------------
\* MultiModelGate (src/unnamed/part_000): configuration and pure helpers
\* ------------------------------------------------------------------------
\* GateConfig defaults, as fixed-point numbers
tauMu == Scale \div 2

tauSigma == (15 * Scale) \div 100

klThreshold == Scale \div 10

clipRadius == 3 * Scale

etaMax == Scale \div 20

\* admissionControl's limits
maxPerSource == 50

minTrust == (3 * Scale) \div 10

\* robustUpdate's literals: reservoir capacity, Catoni c, shrinkage alpha,
\* the diversity guard's limits, the rejection threshold
ReservoirCapacity == 200

CatoniC == 2

ShrinkAlpha == (3 * Scale) \div 10

MinUniqueSources == 3

MinEntropy == (15 * Scale) \div 10

\* A guard that needs both conditions
TooUniformAndFew(uniqueSources, provenanceEntropy) ==
  uniqueSources < MinUniqueSources /\ provenanceEntropy < MinEntropy

\* uniqueSources < 3 || provenanceEntropy < 1.5
InsufficientDiversity(uniqueSources, provenanceEntropy) ==
  uniqueSources < MinUniqueSources \/ provenanceEntropy < MinEntropy

RejectionLimit == 10

\* checkpoint()'s capacity
MaxCheckpoints == 20

\* computeAnchorAnomalyRate's cutoff
AnchorThreshold == 9 * Scale

\* Number of i in 1..k with labels[i] = l
CountOf(labels, l, k) == Cardinality({i \in 1..k : labels[i] = l})

\* A count that stays at the quota, where it is also tested
QuotaExceeded(count) == count > maxPerSource

\* count >= maxPerSource
QuotaReached(count) == count >= maxPerSource

\* Counts kept from one call to the next (a Map held in a field)
KeptSourceCount ==
  IF result.op = "admissionControl" THEN result.value.sourceCount ELSE <<>>

\* new Map<string, number>(): the counts a call starts from
NewSourceCount == <<>>

\* sourceCount.get(source) || 0
CountIn(sourceCount, source) ==
  IF source \in DOMAIN sourceCount THEN sourceCount[source] ELSE 0

\* One pass of the loop of admissionControl, for sample k: the indices
\* admitted so far and the counts per source, before (at) and after.
AdmitStep(provenance, k, at) ==
  IF provenance[k].trust < minTrust THEN at
  ELSE IF QuotaReached(CountIn(at.sourceCount, provenance[k].source)) THEN at
  ELSE [idx |-> Append(at.idx, k),
        sourceCount |->
          [s \in DOMAIN at.sourceCount \cup {provenance[k].source} |->
             IF s = provenance[k].source
             THEN CountIn(at.sourceCount, s) + 1
             ELSE at.sourceCount[s]]]

\* The passes for the samples k..n in order: those of the first half of the
\* range, then those of the second half from where the first half ended
\* (halved so that long batches do not nest deeply; half is bound to the
\* value the first half ends with).
RECURSIVE AdmitRange(_, _, _, _)
AdmitRange(provenance, k, n, at) ==
  IF k > n THEN at
  ELSE IF k = n THEN AdmitStep(provenance, k, at)
  ELSE CHOOSE end \in
         {AdmitRange(provenance, ((k + n) \div 2) + 1, n, half) :
            half \in {AdmitRange(provenance, k, (k + n) \div 2, at)}} : TRUE

\* The loop of admissionControl from sample k to sample n: the indices
\* admitted (idx) and the counts per source (sourceCount) at its end.
AdmitFrom(provenance, k, n, idx, sourceCount) ==
  AdmitRange(provenance, k, n, [idx |-> idx, sourceCount |-> sourceCount])

\* admissionControl: the indices of the batch that are admitted, in order
\* (the admitted samples are batch[i] for these i).
AdmittedIdx(provenance, k) ==
  AdmitFrom(provenance, 1, k, <<>>, NewSourceCount).idx

admissionControl(batch, provenance) ==
  LET idx == AdmittedIdx(provenance, Len(batch))
  IN AsSeq([i \in 1..Len(idx) |-> batch[idx[i]]])

\* admitted.map((_, i) => provenance[i].source): the label of the i-th
\* admitted sample is read at position i of the provenance array.
AdmittedLabels(admitted, provenance) ==
  AsSeq([i \in 1..Len(admitted) |-> provenance[i].source])

LabelSet(labels) == {labels[i] : i \in 1..Len(labels)}

\* computeEntropy: - sum p log2 p = sum (c / n) (log2 n - log2 c)
computeEntropy(labels) ==
  LET n == Len(labels)
      srcs == LabelSet(labels)
      term(l) == CountOf(labels, l, n) * (Log2Fx(n) - Log2Fx(CountOf(labels, l, n)))
      RECURSIVE SumOver(_)
      SumOver(S) == IF S = {} THEN 0
                    ELSE LET l == CHOOSE l \in S : TRUE
                         IN term(l) + SumOver(S \ {l})
  IN Quot(SumOver(srcs), n)

\* computeHerfindahl: sum of squared shares
computeHerfindahl(labels) ==
  LET n == Len(labels)
      srcs == LabelSet(labels)
      RECURSIVE SumOver(_)
      SumOver(S) == IF S = {} THEN 0
                    ELSE LET l == CHOOSE l \in S : TRUE
                         IN CountOf(labels, l, n) * CountOf(labels, l, n)
                            + SumOver(S \ {l})
  IN Quot(SumOver(srcs) * Scale, n * n)

\* The distinct labels in order of first occurrence (Map insertion order)
RECURSIVE DistinctInOrder(_)
DistinctInOrder(labels) ==
  IF labels = <<>> THEN <<>>
  ELSE LET rest == DistinctInOrder(SubSeq(labels, 1, Len(labels) - 1))
           last == labels[Len(labels)]
       IN IF \E i \in 1..Len(rest) : rest[i] = last THEN rest
          ELSE Append(rest, last)

\* weightedReservoir(items, k): the keys are Math.random() ^ (1 / trust), so
\* any min(k, n) of the items can be kept, in any order (ascending key).
weightedReservoir(items, k) ==
  LET m == Min2(k, Len(items))
  IN {AsSeq([i \in 1..m |-> items[f[i]]]) :
        f \in {g \in [1..m -> 1..Len(items)] :
                 \A a, b \in 1..m : a # b => g[a] # g[b]}}

\* The grouping loop of stratifiedReservoir: the items of stratum l are the
\* data[i] with provenance[i].source = l, in the order of data
RECURSIVE StratumItems(_, _, _, _)
StratumItems(data, provenance, l, k) ==
  IF k = 0 THEN <<>>
  ELSE IF provenance[k].source = l
  THEN Append(StratumItems(data, provenance, l, k - 1), data[k])
  ELSE StratumItems(data, provenance, l, k - 1)

\* Math.ceil((stratumTrust / totalTrust) * capacity) for stratum l of the
\* first n provenance records.  Defined when the total trust is positive.
StratumQuota(provenance, n, l, capacity) ==
  LET totalTrust == SumSeq([i \in 1..n |-> provenance[i].trust])
      stratumTrust == SumSeq([i \in 1..n |->
                                IF provenance[i].source = l
                                THEN provenance[i].trust ELSE 0])
  IN (stratumTrust * capacity + totalTrust - 1) \div totalTrust

\* stratifiedReservoir(data, provenance, capacity): every result it can
\* return.  Sample i is put in the stratum of provenance[i].  Defined when
\* the trust of every stratum is positive (weightedReservoir reads heap[0]
\* of an empty heap when the quota is 0).
stratifiedReservoir(data, provenance, capacity) ==
  LET n == Len(data)
      strata == DistinctInOrder(AsSeq([i \in 1..n |-> provenance[i].source]))
      RECURSIVE Build(_)
      Build(s) == IF s = 0 THEN {<<>>}
                  ELSE {r \o sel : r \in Build(s - 1),
                                   sel \in weightedReservoir(
                                             StratumItems(data, provenance, strata[s], n),
                                             StratumQuota(provenance, n, strata[s],
                                                          capacity))}
  IN Build(Len(strata))

\* A learning rate without the cap etaMax
computeAdaptiveLearningRateUncapped(uniqueSources) ==
  Quot(Scale * 10, 10 + uniqueSources)

computeAdaptiveLearningRate(uniqueSources) ==
  Min2(etaMax, Quot(Scale * 10, 10 + uniqueSources))

\* The gate's own Gauss-Jordan inverse of a 1 x 1 matrix: normalizePivotRow
\* throws when |pivot| < 1e-12.
isSingular(A) == A[1][1] = 0

matrixInverse(A) == << <<Quot(Scale * Scale, A[1][1])>> >>

\* Defined when Sigma is not singular
mahalanobisNorm(x, Sigma) ==
  LET temp == matrixVectorMultiply(matrixInverse(Sigma), x)
      dist2 == Dot(x, temp)
  IN FxSqrt(Max2(0, dist2))

matrixMultiply(A, B) ==
  AsSeq([i \in 1..Len(A) |-> AsSeq([j \in 1..Len(B[1]) |->
     Quot(SumSeq([k \in 1..Len(B) |-> A[i][k] * B[k][j]]), Scale)])])

\* logDet of a 1 x 1 matrix: U = A, log(|U11| + 1e-10)
logDet(A) == LnFx(Max2(Abs(A[1][1]), 1))

computeKLDivergence(mu1, Sigma1, mu2, Sigma2) ==
  LET d == Len(mu1)
      product == matrixMultiply(matrixInverse(Sigma2), Sigma1)
      trace == SumSeq([i \in 1..d |-> product[i][i]])
      diff == AsSeq([i \in 1..d |-> mu2[i] - mu1[i]])
      m == mahalanobisNorm(diff, Sigma2)
      mahal2 == Quot(m * m, Scale)
      logDetRatio == logDet(Sigma2) - logDet(Sigma1)
  IN Quot(trace + mahal2 - d * Scale + logDetRatio, 2)

mergeCovariance(Sigma1, Sigma2, eta) ==
  AsSeq([i \in 1..Len(Sigma1) |-> AsSeq([j \in 1..Len(Sigma1) |->
     Quot((Scale - eta) * Sigma1[i][j] + eta * Sigma2[i][j], Scale)])])

\* A merge that adds the candidate to the mean instead of blending it in
mergeMeanUnweighted(mu, muNew, eta) ==
  AsSeq([i \in 1..Len(mu) |-> mu[i] + muNew[i]])

\* The mean merge of step 7, elementwise
mergeMean(mu, muNew, eta) ==
  AsSeq([i \in 1..Len(mu) |->
           Quot((Scale - eta) * mu[i] + eta * muNew[i], Scale)])

\* A corridor check that looks at the spectral corridor before the mean
\* drift
withinCorridorSpectralFirst(muNew, SigmaNew, muR, SigmaR) ==
  LET diff == AsSeq([i \in 1..Len(muNew) |-> muNew[i] - muR[i]])
      mahal == mahalanobisNorm(diff, SigmaR)
      kl == computeKLDivergence(muNew, SigmaNew, muR, SigmaR)
  IN IF ~spectralCorridorCheck(SigmaNew, SigmaR, tauSigma)
     THEN [passed |-> FALSE, reason |-> "Spectral norm outside corridor",
           mahal |-> mahal, klSet |-> FALSE, kl |-> 0]
     ELSE IF mahal > tauMu
     THEN [passed |-> FALSE, reason |-> "Mean drift too large",
           mahal |-> mahal, klSet |-> FALSE, kl |-> 0]
     ELSE IF kl > klThreshold
     THEN [passed |-> FALSE, reason |-> "KL divergence too large",
           mahal |-> mahal, klSet |-> TRUE, kl |-> kl]
     ELSE [passed |-> TRUE, reason |-> "",
           mahal |-> mahal, klSet |-> TRUE, kl |-> kl]

\* A corridor that records the KL divergence and does not check it
withinCorridorWithoutKL(muNew, SigmaNew, muR, SigmaR) ==
  LET diff == AsSeq([i \in 1..Len(muNew) |-> muNew[i] - muR[i]])
      mahal == mahalanobisNorm(diff, SigmaR)
      kl == computeKLDivergence(muNew, SigmaNew, muR, SigmaR)
  IN IF mahal > tauMu
     THEN [passed |-> FALSE, reason |-> "Mean drift too large",
           mahal |-> mahal, klSet |-> FALSE, kl |-> 0]
     ELSE IF ~spectralCorridorCheck(SigmaNew, SigmaR, tauSigma)
     THEN [passed |-> FALSE, reason |-> "Spectral norm outside corridor",
           mahal |-> mahal, klSet |-> FALSE, kl |-> 0]
     ELSE [passed |-> TRUE, reason |-> "",
           mahal |-> mahal, klSet |-> TRUE, kl |-> kl]

\* withinCorridor(muNew, SigmaNew) against the Reference (muR, SigmaR): the
\* verdict, the failing check, and the metrics it records on the way.
withinCorridor(muNew, SigmaNew, muR, SigmaR) ==
  LET diff == AsSeq([i \in 1..Len(muNew) |-> muNew[i] - muR[i]])
      mahal == mahalanobisNorm(diff, SigmaR)
      kl == computeKLDivergence(muNew, SigmaNew, muR, SigmaR)
  IN IF mahal > tauMu
     THEN [passed |-> FALSE, reason |-> "Mean drift too large",
           mahal |-> mahal, klSet |-> FALSE, kl |-> 0]
     ELSE IF ~spectralCorridorCheck(SigmaNew, SigmaR, tauSigma)
     THEN [passed |-> FALSE, reason |-> "Spectral norm outside corridor",
           mahal |-> mahal, klSet |-> FALSE, kl |-> 0]
     ELSE IF kl > klThreshold
     THEN [passed |-> FALSE, reason |-> "KL divergence too large",
           mahal |-> mahal, klSet |-> TRUE, kl |-> kl]
     ELSE [passed |-> TRUE, reason |-> "",
           mahal |-> mahal, klSet |-> TRUE, kl |-> kl]

\* Steps 3-5 of robustUpdate for one outcome of the sampling: the candidate
\* (muNew, SigmaNew), or thrown when an inversion fails.
Candidate(muNew, est) ==
  [thrown |-> est.thrown, muNew |-> muNew, SigmaNew |-> est.covariance]

EstimateClipped(clipped, SigmaR) ==
  Candidate(catoniMean(clipped, CatoniC), mrcd(clipped, ShrinkAlpha, SigmaR))

Estimate(stratified, muA, SigmaA, SigmaR) ==
  IF RE_isSingular(SigmaA)
  THEN [thrown |-> TRUE, muNew |-> muA, SigmaNew |-> SigmaA]
  ELSE EstimateClipped(influenceClip(stratified, muA, SigmaA, clipRadius), SigmaR)

\* ------------------------------------------------------------------------
\* Inputs and remaining bounds
\* ------------------------------------------------------------------------
\* Spec: accepted updates, corridor rejections, the clock's end
MaxAccepts == 2

MaxRejections == 1

MaxTime == 300

\* SpecStreak: accepted updates, corridor rejections, the clock's end
StreakAccepts == 1

StreakRejections == 12

StreakTime == 150

\* SpecLong: accepted updates, corridor rejections
LongAccepts == 24

LongRejections == 1

\* SpecConc: robustUpdate calls in flight at once
MaxInFlight == 2

\* SpecAdmission: the length of the longest batch
LongBatch == 1000

\* Seconds by which the wall clock advances between two steps
TickDeltas == {150}

\* The checkpoint cadence of step 9 (Date.now() % 300000 < 1000), in seconds
CheckpointPeriod == 300

CheckpointWindow == 1

\* Samples given in twentieths
Vec(xs) == AsSeq([i \in 1..Len(xs) |-> <<xs[i] * (Scale \div 20)>>])

\* Provenance with trust given in fifths
Prov(srcs, trusts) ==
  AsSeq([i \in 1..Len(srcs) |->
           [source |-> srcs[i], trust |-> trusts[i] * (Scale \div 5)]])

\* Golden data sets: a clean one, and one with an outlier
GoldenSets == { Vec(<<-20, -10, 0, 10, 20>>), Vec(<<-20, -10, 0, 10, 200>>) }

\* Update batches with their provenance.  Every batch that passes the
\* diversity guard has at least four admitted samples, so that mrcd's
\* subsets hold at least two.
Batches ==
  { \* a little off the Reference mean, four sources
    [name |-> "shift", batch |-> Vec(<<-21, -11, 9, 19>>),
     provenance |-> Prov(<<"a", "b", "c", "d">>, <<5, 5, 5, 5>>)],
    \* mean just inside the drift threshold
    [name |-> "edge", batch |-> Vec(<<-17, -7, 13, 23>>),
     provenance |-> Prov(<<"a", "b", "c", "d">>, <<5, 5, 5, 5>>)],
    \* shifted mean
    [name |-> "drift", batch |-> Vec(<<5, 15, 25, 35>>),
     provenance |-> Prov(<<"a", "b", "c", "d">>, <<5, 5, 5, 5>>)],
    \* tight cluster at the Reference mean, one source twice
    [name |-> "tight", batch |-> Vec(<<-10, -5, -5, 0>>),
     provenance |-> Prov(<<"a", "a", "b", "c">>, <<5, 5, 5, 5>>)],
    \* identical samples
    [name |-> "same", batch |-> Vec(<<-5, -5, -5, -5>>),
     provenance |-> Prov(<<"a", "b", "c", "d">>, <<5, 5, 5, 5>>)],
    \* two sources only
    [name |-> "two", batch |-> Vec(<<-25, -15, 5, 15>>),
     provenance |-> Prov(<<"a", "a", "b", "b">>, <<5, 5, 5, 5>>)],
    \* nothing trusted
    [name |-> "untrusted", batch |-> Vec(<<-25, -15, 5, 15>>),
     provenance |-> Prov(<<"a", "b", "c", "d">>, <<1, 1, 1, 1>>)] }

\* Batches for the diversity guard
GuardBatches ==
  { \* three sources, one of them with three of the five samples
    [name |-> "skewed", batch |-> Vec(<<-21, -11, -1, 9, 19>>),
     provenance |-> Prov(<<"a", "a", "a", "b", "c">>, <<5, 5, 5, 5, 5>>)],
    \* untrusted samples first, then three sources
    [name |-> "mixed", batch |-> Vec(<<-25, -21, -11, 9, 19>>),
     provenance |-> Prov(<<"a", "a", "b", "c", "d">>, <<1, 1, 5, 5, 5>>)],
    \* one untrusted sample first, then four sources
    [name |-> "led", batch |-> Vec(<<-25, -21, -11, 9, 19>>),
     provenance |-> Prov(<<"a", "b", "c", "d", "e">>, <<1, 5, 5, 5, 5>>)],
    \* six untrusted samples of six sources first, then six samples of four
    \* other sources
    [name |-> "masked",
     batch |-> Vec(<<-25, -25, -25, -25, -25, -25, -30, -30, -14, 0, 14, 30>>),
     provenance |-> Prov(<<"a", "b", "c", "d", "e", "f", "g", "g", "h", "h", "i", "j">>,
                         <<1, 1, 1, 1, 1, 1, 5, 5, 5, 5, 5, 5>>)] }

\* Batches that name exactly the two sources a and b, in every arrangement,
\* each sample with trust 0.2 or 1.0; lengths are the numbers of samples
TwoSourceBatches(lengths) ==
  UNION { { [name |-> "pair", batch |-> SubSeq(Vec(<<-21, -11, 9, 19>>), 1, n),
             provenance |-> Prov(AsSeq(srcs), AsSeq(trusts))] :
              srcs \in {q \in [1..n -> {"a", "b"}] :
                          {q[i] : i \in 1..n} = {"a", "b"}},
              trusts \in [1..n -> {1, 5}] } : n \in lengths }

\* Provenance of n samples: sources and trusts (in tenths) repeat cyclically
ProvOf(n, srcs, trusts) ==
  AsSeq([i \in 1..n |->
           [source |-> srcs[((i - 1) % Len(srcs)) + 1],
            trust |-> trusts[((i - 1) % Len(trusts)) + 1] * (Scale \div 10)]])

\* A batch of n samples, each one different from the others
SampleBatch(n) == AsSeq([i \in 1..n |-> <<i>>])

\* Provenance arrays around the per-source quota: below it, at it, above it
AdmissionInputs ==
  { ProvOf(n, srcs, trusts) :
      n \in {1, maxPerSource, maxPerSource + 1, 2 * maxPerSource + 2},
      srcs \in {<<"a">>, <<"a", "b">>},
      trusts \in {<<10>>, <<3>>, <<2, 10>>, <<10, 10, 2>>} }

\* One source, full trust, far more samples than the quota
LongInput == ProvOf(LongBatch, <<"a">>, <<10>>)

\* ------------------------------------------------------------------------
\* MultiModelGate: state
\* ------------------------------------------------------------------------
vars == <<goldenSet, alertSink, objs, arrs, adaptiveModel, referenceModel,
          checkpoints, metrics, lastBreakerTrigger, now, calls, result,
          merges, streak, captures>>

\* The mutable part of the gate, as one record that the methods transform
Gate ==
  [objs |-> objs, arrs |-> arrs, adaptiveModel |-> adaptiveModel,
   checkpoints |-> checkpoints, metrics |-> metrics,
   lastBreakerTrigger |-> lastBreakerTrigger]

\* The address a new object or array gets: the smallest one not in use
NewAddr(h) ==
  CHOOSE a \in 1..(Cardinality(DOMAIN h) + 1) :
    a \notin DOMAIN h /\ \A b \in 1..(a - 1) : b \in DOMAIN h

\* The mean and the covariance held by the ModelState at address m
MuOf(os, as, m) == as[os[m].mu]

SigmaOf(os, as, m) == AsSeq([i \in 1..Len(os[m].Sigma) |-> as[os[m].Sigma[i]]])

\* The four fields of a ModelState, by value; a Date is an object of its
\* own, held like an array of one number (its time)
FieldsOf(os, as, m) ==
  [mu |-> MuOf(os, as, m), Sigma |-> SigmaOf(os, as, m),
   timestamp |-> as[os[m].timestamp][1], checkpoint |-> os[m].checkpoint]

\* New arrays holding the given rows: the heap after, and their addresses
RECURSIVE StoreRows(_, _, _)
StoreRows(as, rows, k) ==
  IF k = 0 THEN [arrs |-> as, rows |-> <<>>]
  ELSE LET before == StoreRows(as, rows, k - 1)
           a == NewAddr(before.arrs)
       IN [arrs |-> (a :> rows[k]) @@ before.arrs,
           rows |-> Append(before.rows, a)]

\* A shallow copy, { ...state }: a new object that shares the arrays
cloneModelStateShallow(g, state) ==
  LET obj == NewAddr(g.objs)
  IN [g |-> [g EXCEPT !.objs = (obj :> g.objs[state]) @@ g.objs],
      ret |-> obj]

\* A copy of covariance rows and Date that keeps the mean array of the
\* original
cloneModelStateSameMean(g, state) ==
  LET s == g.objs[state]
      copied == StoreRows(g.arrs, SigmaOf(g.objs, g.arrs, state), Len(s.Sigma))
      date == NewAddr(copied.arrs)
      obj == NewAddr(g.objs)
  IN [g |-> [g EXCEPT !.arrs = (date :> g.arrs[s.timestamp]) @@ copied.arrs,
                      !.objs = (obj :> [mu |-> s.mu, Sigma |-> copied.rows,
                                        timestamp |-> date,
                                        checkpoint |-> s.checkpoint]) @@ g.objs],
      ret |-> obj]

\* A copy of the arrays that keeps the Date object of the original
cloneModelStateSameDate(g, state) ==
  LET s == g.objs[state]
      mu == NewAddr(g.arrs)
      copied == StoreRows((mu :> g.arrs[s.mu]) @@ g.arrs,
                          SigmaOf(g.objs, g.arrs, state), Len(s.Sigma))
      obj == NewAddr(g.objs)
  IN [g |-> [g EXCEPT !.arrs = copied.arrs,
                      !.objs = (obj :> [mu |-> mu, Sigma |-> copied.rows,
                                        timestamp |-> s.timestamp,
                                        checkpoint |-> s.checkpoint]) @@ g.objs],
      ret |-> obj]

\* { mu: [...state.mu], Sigma: state.Sigma.map(row => [...row]),
\*   timestamp: new Date(state.timestamp), checkpoint: state.checkpoint }
cloneModelState(g, state) ==
  LET s == g.objs[state]
      mu == NewAddr(g.arrs)
      copied == StoreRows((mu :> g.arrs[s.mu]) @@ g.arrs,
                          SigmaOf(g.objs, g.arrs, state), Len(s.Sigma))
      date == NewAddr(copied.arrs)
      obj == NewAddr(g.objs)
  IN [g |-> [g EXCEPT !.arrs = (date :> g.arrs[s.timestamp]) @@ copied.arrs,
                      !.objs = (obj :> [mu |-> mu, Sigma |-> copied.rows,
                                        timestamp |-> date,
                                        checkpoint |-> s.checkpoint]) @@ g.objs],
      ret |-> obj]

\* A rollback that returns as it does when the history is empty
rollbackNothing(g) == g

\* A rollback that installs the newest checkpoint itself, not a copy of it
rollbackAlias(g) ==
  IF Len(g.checkpoints) = 0 THEN g
  ELSE [g EXCEPT !.adaptiveModel = g.checkpoints[Len(g.checkpoints)]]

\* A rollback to the oldest checkpoint
rollbackOldest(g) ==
  IF Len(g.checkpoints) = 0 THEN g
  ELSE LET c == cloneModelState(g, g.checkpoints[1])
       IN [c.g EXCEPT !.adaptiveModel = c.ret]

\* A rollback that also clears the rejection counter
rollbackAndReset(g) ==
  IF Len(g.checkpoints) = 0 THEN g
  ELSE LET c == cloneModelState(g, g.checkpoints[Len(g.checkpoints)])
       IN [c.g EXCEPT !.adaptiveModel = c.ret,
                      !.metrics.update_rejection_rate = 0]

\* A rollback that also records the restored model in the history
rollbackAndRecord(g) ==
  IF Len(g.checkpoints) = 0 THEN g
  ELSE LET c == cloneModelState(g, g.checkpoints[Len(g.checkpoints)])
           cp == cloneModelState(c.g, c.ret)
       IN [cp.g EXCEPT !.adaptiveModel = c.ret,
                       !.checkpoints = Append(g.checkpoints, cp.ret)]

\* rollback(): the body runs to its end when called (it awaits nothing)
rollback(g) ==
  IF Len(g.checkpoints) = 0 THEN g
  ELSE LET c == cloneModelState(g, g.checkpoints[Len(g.checkpoints)])
       IN [c.g EXCEPT !.adaptiveModel = c.ret]

\* checkpoint() that makes room by dropping the youngest snapshot it holds
checkpointEvictYoungest(g) ==
  LET c == cloneModelState(g, g.adaptiveModel)
      cp == c.ret
      numbered == [c.g.objs EXCEPT ![cp].checkpoint = Len(g.checkpoints)]
      pushed == Append(g.checkpoints, cp)
  IN [c.g EXCEPT !.objs = numbered,
                 !.checkpoints = IF Len(pushed) > MaxCheckpoints
                                 THEN Append(SubSeq(g.checkpoints, 1,
                                                    Len(g.checkpoints) - 1), cp)
                                 ELSE pushed]

\* A checkpoint() that never evicts
checkpointUnbounded(g) ==
  LET c == cloneModelState(g, g.adaptiveModel)
      cp == c.ret
      numbered == [c.g.objs EXCEPT ![cp].checkpoint = Len(g.checkpoints)]
  IN [c.g EXCEPT !.objs = numbered, !.checkpoints = Append(g.checkpoints, cp)]

\* checkpoint()
checkpoint(g) ==
  LET c == cloneModelState(g, g.adaptiveModel)
      cp == c.ret
      numbered == [c.g.objs EXCEPT ![cp].checkpoint = Len(g.checkpoints)]
      pushed == Append(g.checkpoints, cp)
  IN [c.g EXCEPT !.objs = numbered,
                 !.checkpoints = IF Len(pushed) > MaxCheckpoints
                                 THEN Tail(pushed) ELSE pushed]

\* The state an aborted update must leave as it found it: the Adaptive mean
\* and covariance, the checkpoint history, the breakers' last triggers.
Protected(os, as, a, cps, triggers) ==
  [mu |-> MuOf(os, as, a), Sigma |-> SigmaOf(os, as, a),
   checkpoints |-> AsSeq([i \in 1..Len(cps) |-> FieldsOf(os, as, cps[i])]),
   lastBreakerTrigger |-> triggers]

\* What the garbage collector keeps: the objects and arrays reachable from
\* the gate's fields.
Collect(g) ==
  LET liveObjs == {g.adaptiveModel, referenceModel}
                    \cup {g.checkpoints[i] : i \in 1..Len(g.checkpoints)}
      liveArrs == {g.objs[m].mu : m \in liveObjs}
                    \cup {g.objs[m].timestamp : m \in liveObjs}
                    \cup UNION {{g.objs[m].Sigma[i] : i \in 1..Len(g.objs[m].Sigma)} :
                                  m \in liveObjs}
  IN [g EXCEPT !.objs = [m \in liveObjs |-> g.objs[m]],
               !.arrs = [a \in liveArrs |-> g.arrs[a]]]

\* ------------------------------------------------------------------------
\* MultiModelGate: circuit breakers
\* ------------------------------------------------------------------------
\* initializeCircuitBreakers(): the five breakers in evaluation order;
\* type is name.toUpperCase(), the alert's type.
breakers ==
  << [name |-> "anchor_anomaly", type |-> "ANCHOR_ANOMALY",
      action |-> "rollback", cooldown |-> 300],
     [name |-> "provenance_concentration", type |-> "PROVENANCE_CONCENTRATION",
      action |-> "freeze", cooldown |-> 60],
     [name |-> "kl_divergence_spike", type |-> "KL_DIVERGENCE_SPIKE",
      action |-> "rollback", cooldown |-> 600],
     [name |-> "update_rejection_spike", type |-> "UPDATE_REJECTION_SPIKE",
      action |-> "alert", cooldown |-> 300],
     [name |-> "toxic_flow", type |-> "TOXIC_FLOW",
      action |-> "freeze", cooldown |-> 120] >>

\* breaker.condition(this.metrics)
BreakerCondition(name, m) ==
  CASE name = "anchor_anomaly" -> m.anchor_anomaly_rate * 10000 > Scale
    [] name = "provenance_concentration" -> m.herfindahl_index * 10 > 2 * Scale
    [] name = "kl_divergence_spike" -> m.kl_divergence > klThreshold * 2
    [] name = "update_rejection_spike" -> m.update_rejection_rate > 10
    [] name = "toxic_flow" -> m.vpin * 100 > 75 * Scale

\* computeAnchorAnomalyRate(): thrown when the Adaptive covariance cannot be
\* inverted, else the fraction of golden points farther than the cutoff.
computeAnchorAnomalyRate(g) ==
  LET mu == MuOf(g.objs, g.arrs, g.adaptiveModel)
      Sigma == SigmaOf(g.objs, g.arrs, g.adaptiveModel)
      anomalies == Cardinality({k \in 1..Len(goldenSet) :
                      mahalanobisNorm(AsSeq([i \in 1..Len(mu) |-> goldenSet[k][i] - mu[i]]),
                                      Sigma) > AnchorThreshold})
  IN IF isSingular(Sigma) THEN [thrown |-> TRUE, rate |-> 0]
     ELSE [thrown |-> FALSE, rate |-> Quot(anomalies * Scale, Len(goldenSet))]

\* A cooldown check that lets every breaker through
NeverCooling(g, breaker, t) == FALSE

\* The cooldown check: the breaker has triggered, less than its cooldown ago
Cooling(g, breaker, t) ==
  /\ breaker.name \in DOMAIN g.lastBreakerTrigger
  /\ t - g.lastBreakerTrigger[breaker.name] < breaker.cooldown

\* A switch whose every case rolls back
AlwaysRollback(action) == TRUE

\* case 'rollback' of the switch on breaker.action
IsRollback(action) == action = "rollback"

\* An alert that reaches the sink twice
alertTwice(emitted, type) == Append(Append(emitted, type), type)

\* alert(type, message): the sink is called with an alert of this type
alert(emitted, type) == Append(emitted, type)

\* The loop of checkCircuitBreakers() from breaker i on, at instant t, up to
\* its end ("done"), to the await of a rollback ("await", at breaker i), or
\* to an alert that throws ("threw").  emitted collects the alerts raised.
RECURSIVE BreakerLoop(_, _, _, _)
BreakerLoop(g, i, t, emitted) ==
  IF i > Len(breakers) THEN [g |-> g, pc |-> "done", i |-> i, alerts |-> emitted]
  ELSE LET breaker == breakers[i]
           set == [g EXCEPT !.lastBreakerTrigger = (breaker.name :> t) @@ @]
       IN IF Cooling(g, breaker, t) \/ ~BreakerCondition(breaker.name, g.metrics)
          THEN BreakerLoop(g, i + 1, t, emitted)
          ELSE IF IsRollback(breaker.action)
          THEN [g |-> rollback(set), pc |-> "await", i |-> i, alerts |-> emitted]
          ELSE IF alertSink = "throws"
          THEN [g |-> set, pc |-> "threw", i |-> i,
                alerts |-> alert(emitted, breaker.type)]
          ELSE BreakerLoop(set, i + 1, t, alert(emitted, breaker.type))

\* checkCircuitBreakers() from its start up to its first await or its end
checkCircuitBreakers(g, t) ==
  LET anchor == computeAnchorAnomalyRate(g)
  IN IF anchor.thrown THEN [g |-> g, pc |-> "threw", i |-> 0, alerts |-> <<>>]
     ELSE BreakerLoop([g EXCEPT !.metrics.anchor_anomaly_rate = anchor.rate],
                      1, t, <<>>)

\* ------------------------------------------------------------------------
\* MultiModelGate: robustUpdate
\* ------------------------------------------------------------------------
\* Where a call stands after a step: its caller's view (status, accepted,
\* reason, the alerts raised in the step) and, when it is suspended at an
\* await, the place (pc, and the breaker i being handled).
Outcome(g, status, accepted, reason, alerts, pc, i, merged) ==
  [g |-> g, status |-> status, accepted |-> accepted, reason |-> reason,
   alerts |-> alerts, pc |-> pc, i |-> i, merged |-> merged]

\* A robustUpdate that treats the rollback of a breaker like the rollback
\* of line 191: an alert, then the rejection
AfterBreakersRejecting(brk, merged) ==
  Outcome(brk.g, "suspended", FALSE, <<>>, brk.alerts,
          CASE brk.pc = "done" -> "breakers_done"
            [] brk.pc = "await" -> "gate_alert"
            [] brk.pc = "threw" -> "breakers_threw",
          brk.i, merged)

\* Where robustUpdate waits after checkCircuitBreakers() was called
AfterBreakers(brk, merged) ==
  Outcome(brk.g, "suspended", FALSE, <<>>, brk.alerts,
          CASE brk.pc = "done" -> "breakers_done"
            [] brk.pc = "await" -> "breaker_alert"
            [] brk.pc = "threw" -> "breakers_threw",
          brk.i, merged)

\* A merge into the model as the newest checkpoint holds it, not as the
\* Adaptive model is now
mergeOntoCheckpoint(g, muNew, SigmaNew, eta, t) ==
  LET a == g.objs[g.adaptiveModel]
      newest == g.checkpoints[Len(g.checkpoints)]
      inPlace == [g.arrs EXCEPT ![a.mu] = mergeMean(MuOf(g.objs, g.arrs, newest),
                                                     muNew, eta)]
      merged == mergeCovariance(SigmaOf(g.objs, g.arrs, newest), SigmaNew, eta)
      stored == StoreRows(inPlace, merged, Len(merged))
      date == NewAddr(stored.arrs)
  IN [g EXCEPT !.arrs = (date :> <<t>>) @@ stored.arrs,
               !.objs[g.adaptiveModel].Sigma = stored.rows,
               !.objs[g.adaptiveModel].timestamp = date]

\* Step 7: the mean is overwritten in place, the covariance is replaced by
\* a new matrix, the timestamp by a new Date.
merge(g, muNew, SigmaNew, eta, t) ==
  LET a == g.objs[g.adaptiveModel]
      inPlace == [g.arrs EXCEPT ![a.mu] = mergeMean(@, muNew, eta)]
      merged == mergeCovariance(SigmaOf(g.objs, inPlace, g.adaptiveModel),
                                SigmaNew, eta)
      stored == StoreRows(inPlace, merged, Len(merged))
      date == NewAddr(stored.arrs)
  IN [g EXCEPT !.arrs = (date :> <<t>>) @@ stored.arrs,
               !.objs[g.adaptiveModel].Sigma = stored.rows,
               !.objs[g.adaptiveModel].timestamp = date]

\* A threshold that every rejection exceeds
AnyRejection(count) == count > 0

\* A threshold that the tenth rejection already meets
ReachesLimit(count) == count >= RejectionLimit

\* this.metrics.update_rejection_rate > 10
ExceedsLimit(count) == count > RejectionLimit

\* Steps 6-8 with a corridor that records the spectral value it checked:
\* the candidate's covariance relative to the Reference's
AfterGateRecordingSpectral(g, uniqueSources, est, gateCheck, t) ==
  LET gated == [g EXCEPT
                  !.metrics.mahalanobis_drift = gateCheck.mahal,
                  !.metrics.spectral_norm =
                     IF gateCheck.mahal > tauMu THEN @
                     ELSE Quot(est.SigmaNew[1][1] * Scale,
                               SigmaOf(g.objs, g.arrs, referenceModel)[1][1]),
                  !.metrics.kl_divergence = IF gateCheck.klSet THEN gateCheck.kl ELSE @]
      failed == [gated EXCEPT !.metrics.update_rejection_rate = @ + 1]
      eta == computeAdaptiveLearningRate(uniqueSources)
  IN IF ~gateCheck.passed
     THEN IF ExceedsLimit(failed.metrics.update_rejection_rate)
          THEN Outcome(rollback(failed), "suspended", FALSE,
                       <<"Gate violation", gateCheck.reason>>, <<>>,
                       "gate_alert", 0, FALSE)
          ELSE Outcome(failed, "returned", FALSE,
                       <<"Gate violation", gateCheck.reason>>, <<>>, "", 0, FALSE)
     ELSE AfterBreakers(
            checkCircuitBreakers(merge(gated, est.muNew, est.SigmaNew, eta, t), t),
            TRUE)

\* Steps 6-8 of robustUpdate for a candidate that was gated (gateCheck)
AfterGate(g, uniqueSources, est, gateCheck, t) ==
  LET gated == [g EXCEPT
                  !.metrics.mahalanobis_drift = gateCheck.mahal,
                  !.metrics.kl_divergence = IF gateCheck.klSet THEN gateCheck.kl ELSE @]
      failed == [gated EXCEPT !.metrics.update_rejection_rate = @ + 1]
      eta == computeAdaptiveLearningRate(uniqueSources)
  IN IF ~gateCheck.passed
     THEN IF ExceedsLimit(failed.metrics.update_rejection_rate)
          THEN Outcome(rollback(failed), "suspended", FALSE,
                       <<"Gate violation", gateCheck.reason>>, <<>>,
                       "gate_alert", 0, FALSE)
          ELSE Outcome(failed, "returned", FALSE,
                       <<"Gate violation", gateCheck.reason>>, <<>>, "", 0, FALSE)
     ELSE AfterBreakers(
            checkCircuitBreakers(merge(gated, est.muNew, est.SigmaNew, eta, t), t),
            TRUE)

\* Steps 6-8 of robustUpdate for the candidate est of steps 4-5
AfterEstimate(g, uniqueSources, est, t) ==
  LET muR == MuOf(g.objs, g.arrs, referenceModel)
      SigmaR == SigmaOf(g.objs, g.arrs, referenceModel)
  IN IF est.thrown \/ isSingular(SigmaR)
     THEN Outcome(g, "threw", FALSE, <<>>, <<>>, "", 0, FALSE)
     ELSE AfterGate(g, uniqueSources, est,
                    withinCorridor(est.muNew, est.SigmaNew, muR, SigmaR), t)

\* A guard whose rejection is counted like a corridor failure
GuardRejectionCounted(g) ==
  Outcome([g EXCEPT !.metrics.update_rejection_rate = @ + 1], "returned", FALSE,
          <<"Insufficient source diversity (SNR guard)">>, <<>>, "", 0, FALSE)

\* The return of the diversity guard (line 162)
GuardRejection(g) ==
  Outcome(g, "returned", FALSE,
          <<"Insufficient source diversity (SNR guard)">>, <<>>, "", 0, FALSE)

\* Steps 2-8 of robustUpdate for the admitted samples and their labels
AfterAdmission(g, admitted, labels, provenanceEntropy, stratified, t) ==
  LET uniqueSources == Cardinality(LabelSet(labels))
      guarded == [g EXCEPT !.metrics.provenance_entropy = provenanceEntropy,
                           !.metrics.herfindahl_index = computeHerfindahl(labels)]
  IN IF InsufficientDiversity(uniqueSources, provenanceEntropy)
     THEN GuardRejection(guarded)
     ELSE AfterEstimate(guarded, uniqueSources,
                        Estimate(stratified,
                                 MuOf(g.objs, g.arrs, g.adaptiveModel),
                                 SigmaOf(g.objs, g.arrs, g.adaptiveModel),
                                 SigmaOf(g.objs, g.arrs, referenceModel)),
                        t)

\* A robustUpdate whose early return of step 1 counts as a rejection
robustUpdateCounting(g, batch, provenance, stratified, t) ==
  LET admitted == admissionControl(batch, provenance)
  IN IF Len(admitted) = 0
     THEN Outcome([g EXCEPT !.metrics.update_rejection_rate = @ + 1],
                  "returned", FALSE,
                  <<"All samples rejected by admission control">>, <<>>, "", 0, FALSE)
     ELSE AfterAdmission(g, admitted, AdmittedLabels(admitted, provenance),
                         computeEntropy(AdmittedLabels(admitted, provenance)),
                         stratified, t)

\* robustUpdate(batch, provenance) at instant t, from its start up to its
\* return, its throw or its first await; stratified is the outcome of the
\* sampling of step 3.
robustUpdate(g, batch, provenance, stratified, t) ==
  LET admitted == admissionControl(batch, provenance)
  IN IF Len(admitted) = 0
     THEN Outcome(g, "returned", FALSE,
                  <<"All samples rejected by admission control">>, <<>>, "", 0, FALSE)
     ELSE AfterAdmission(g, admitted, AdmittedLabels(admitted, provenance),
                         computeEntropy(AdmittedLabels(admitted, provenance)),
                         stratified, t)

\* A suspended call taken up again at instant t, up to its return, its
\* throw or its next await.
continue(g, call, t) ==
  CASE call.pc = "gate_alert" ->
         \* line 192: the alert, then the rejection
         IF alertSink = "throws"
         THEN Outcome(g, "threw", FALSE, <<>>, alert(<<>>, "GATE_VIOLATION"),
                      "", 0, FALSE)
         ELSE Outcome(g, "returned", FALSE, call.reason,
                      alert(<<>>, "GATE_VIOLATION"), "", 0, FALSE)
    [] call.pc = "breaker_alert" ->
         \* line 434: the alert, then the rest of the breakers
         IF alertSink = "throws"
         THEN Outcome(g, "suspended", FALSE, <<>>,
                      alert(<<>>, breakers[call.i].type),
                      "breakers_threw", call.i, FALSE)
         ELSE AfterBreakers(BreakerLoop(g, call.i + 1, t,
                                        alert(<<>>, breakers[call.i].type)),
                            FALSE)
    [] call.pc = "breakers_done" ->
         \* step 9, then the acceptance
         Outcome(IF t % CheckpointPeriod < CheckpointWindow THEN checkpoint(g) ELSE g,
                 "returned", TRUE, <<>>, <<>>, "", 0, FALSE)
    [] call.pc = "breakers_threw" ->
         Outcome(g, "threw", FALSE, <<>>, <<>>, "", 0, FALSE)

\* ------------------------------------------------------------------------
\* Construction and the operations
\* ------------------------------------------------------------------------
Report(op, out, value) ==
  [op |-> op, status |-> out.status, accepted |-> out.accepted,
   reason |-> out.reason, alerts |-> out.alerts, value |-> value]

\* The snapshots of the history cps: those that were in the history before
\* keep the number of their capture, a snapshot that was not is the next
\* capture.
Captured(cps) ==
  LET kept == {checkpoints[i] : i \in 1..Len(checkpoints)}
      held == {cps[i] : i \in 1..Len(cps)}
  IN [count |-> captures.count + Cardinality(held \ kept),
      serial |-> [m \in held |-> IF m \in kept THEN captures.serial[m]
                                 ELSE captures.count + 1]]

Install(g) ==
  \E live \in {Collect(g)} :
     /\ objs' = live.objs
     /\ arrs' = live.arrs
     /\ adaptiveModel' = live.adaptiveModel
     /\ checkpoints' = live.checkpoints
     /\ metrics' = live.metrics
     /\ lastBreakerTrigger' = live.lastBreakerTrigger
     /\ captures' = Captured(live.checkpoints)

\* new MultiModelGate(golden, {}, sink) at instant 0
Construct(golden, sink) ==
  LET est == mrcd(golden, ShrinkAlpha, Identity(Dim(golden)))
      rows == StoreRows((1 :> est.mean), est.covariance, Len(est.covariance))
      date == NewAddr(rows.arrs)
      g0 == [objs |-> (1 :> [mu |-> 1, Sigma |-> rows.rows,
                             timestamp |-> date, checkpoint |-> 0]),
             arrs |-> (date :> <<0>>) @@ rows.arrs,
             adaptiveModel |-> 1, checkpoints |-> <<>>,
             metrics |-> [mahalanobis_drift |-> 0, spectral_norm |-> Scale,
                          kl_divergence |-> 0, provenance_entropy |-> 0,
                          herfindahl_index |-> 0, anchor_anomaly_rate |-> 0,
                          update_rejection_rate |-> 0, vpin |-> 0],
             lastBreakerTrigger |-> <<>>]
      adaptive == cloneModelState(g0, 1)
      first == cloneModelState(adaptive.g, 1)
      g == [first.g EXCEPT !.adaptiveModel = adaptive.ret,
                           !.checkpoints = <<first.ret>>]
  IN /\ ~est.thrown
     /\ goldenSet = golden
     /\ alertSink = sink
     /\ referenceModel = 1
     /\ objs = g.objs
     /\ arrs = g.arrs
     /\ adaptiveModel = g.adaptiveModel
     /\ checkpoints = g.checkpoints
     /\ metrics = g.metrics
     /\ lastBreakerTrigger = g.lastBreakerTrigger
     /\ now = 0
     /\ calls = <<>>
     /\ result = [op |-> "constructor", status |-> "returned", accepted |-> FALSE,
                  reason |-> <<>>, alerts |-> <<>>, value |-> <<>>]
     /\ merges = 0
     /\ streak = [n |-> 0, before |-> <<>>]
     /\ captures = [count |-> 1, serial |-> (first.ret :> 1)]

Init == \E golden \in GoldenSets : Construct(golden, "returns")

\* The outcomes of the sampling of step 3 for a batch (one empty outcome
\* for a batch that is turned away before step 3)
Samplings(B) ==
  LET admitted == admissionControl(B.batch, B.provenance)
      labels == AdmittedLabels(admitted, B.provenance)
  IN IF Len(admitted) = 0 THEN {<<>>}
     ELSE IF InsufficientDiversity(Cardinality(LabelSet(labels)),
                                   computeEntropy(labels))
     THEN {<<>>}
     ELSE stratifiedReservoir(admitted, B.provenance, ReservoirCapacity)

RemoveAt(q, k) == SubSeq(q, 1, k - 1) \o SubSeq(q, k + 1, Len(q))

\* A caller starts robustUpdate(batch, provenance): the call runs up to its
\* return, its throw or its first await.
Begin(batches, inFlight, maxAccepts, maxRejections) ==
  /\ Len(calls) < inFlight
  /\ \E B \in batches : \E stratified \in Samplings(B) :
     \E out \in {robustUpdate(Gate, B.batch, B.provenance, stratified, now)} :
       LET corridorFailed == out.reason # <<>> /\ out.reason[1] = "Gate violation"
       IN /\ out.merged => merges < maxAccepts
          /\ corridorFailed => metrics.update_rejection_rate < maxRejections
          /\ Install(out.g)
          /\ calls' = IF out.status = "suspended"
                      THEN Append(calls,
                                  [pc |-> out.pc, i |-> out.i, reason |-> out.reason,
                                   before |-> Protected(objs, arrs, adaptiveModel,
                                                        checkpoints,
                                                        lastBreakerTrigger)])
                      ELSE calls
          /\ result' = Report("robustUpdate", out,
                               [batch |-> B.batch, provenance |-> B.provenance])
          /\ merges' = IF out.merged THEN merges + 1 ELSE merges
          /\ streak' = IF ~corridorFailed THEN [n |-> 0, before |-> <<>>]
                       ELSE IF streak.n = 0
                       THEN [n |-> 1, before |-> FieldsOf(objs, arrs, adaptiveModel)]
                       ELSE [streak EXCEPT !.n = @ + 1]
  /\ UNCHANGED <<goldenSet, alertSink, referenceModel, now>>

\* The event loop takes up a suspended call
Resume ==
  \E k \in 1..Len(calls) :
    \E out \in {continue(Gate, calls[k], now)} :
       /\ Install(out.g)
       /\ calls' = IF out.status = "suspended"
                   THEN [calls EXCEPT ![k].pc = out.pc, ![k].i = out.i,
                                      ![k].reason = out.reason]
                   ELSE RemoveAt(calls, k)
       /\ result' = Report("continue", out, <<>>)
       /\ UNCHANGED <<goldenSet, alertSink, referenceModel, now, merges, streak>>

\* Time passes
Tick(maxTime) ==
  \E d \in TickDeltas :
    /\ now + d <= maxTime
    /\ now' = now + d
    /\ result' = [op |-> "tick", status |-> "returned", accepted |-> FALSE,
                  reason |-> <<>>, alerts |-> <<>>, value |-> <<>>]
    /\ UNCHANGED <<goldenSet, alertSink, objs, arrs, adaptiveModel, referenceModel,
                   checkpoints, metrics, lastBreakerTrigger, calls, merges, streak,
                   captures>>

\* getModels(): the caller is handed two clones, by value here, and may then
\* write to every array it was handed.
GetModels ==
  LET adaptive == cloneModelState(Gate, adaptiveModel)
      reference == cloneModelState(adaptive.g, referenceModel)
      g == reference.g
      handed == {g.objs[m].mu : m \in {adaptive.ret, reference.ret}}
                  \cup {g.objs[m].timestamp : m \in {adaptive.ret, reference.ret}}
                  \cup UNION {{g.objs[m].Sigma[i] : i \in 1..Len(g.objs[m].Sigma)} :
                                m \in {adaptive.ret, reference.ret}}
      written == [g EXCEPT !.arrs = [a \in DOMAIN g.arrs |->
                                       IF a \in handed
                                       THEN AsSeq([i \in 1..Len(g.arrs[a]) |-> 0])
                                       ELSE g.arrs[a]]]
  IN /\ Install(written)
     /\ result' = [op |-> "getModels", status |-> "returned", accepted |-> FALSE,
                   reason |-> <<>>, alerts |-> <<>>,
                   value |-> <<FieldsOf(g.objs, g.arrs, adaptive.ret),
                               FieldsOf(g.objs, g.arrs, reference.ret)>>]
     /\ UNCHANGED <<goldenSet, alertSink, referenceModel, now, calls, merges, streak>>

\* A getMetrics() that hands out this.metrics itself
getMetricsShared(g) == [shared |-> TRUE, fields |-> g.metrics]

\* getMetrics(): { ...this.metrics }, a new object with the fields of the
\* metrics (all numbers); shared tells whether the object handed out is the
\* gate's own.
getMetrics(g) == [shared |-> FALSE, fields |-> g.metrics]

\* getMetrics(): the caller is handed the object and may then write to
\* every field of it.
GetMetrics ==
  \E ret \in {getMetrics(Gate)} :
    /\ metrics' = IF ret.shared THEN [k \in DOMAIN metrics |-> Scale] ELSE metrics
    /\ result' = [op |-> "getMetrics", status |-> "returned", accepted |-> FALSE,
                  reason |-> <<>>, alerts |-> <<>>, value |-> ret.fields]
    /\ UNCHANGED <<goldenSet, alertSink, objs, arrs, adaptiveModel, referenceModel,
                   checkpoints, lastBreakerTrigger, now, calls, merges, streak,
                   captures>>

Named(names) == {B \in Batches : B.name \in names}

\* Calls awaited one after the other, every kind of batch
Next ==
  \/ Begin(Batches, 1, MaxAccepts, MaxRejections)
  \/ Resume
  \/ Tick(MaxTime)

Spec == Init /\ [][Next]_vars

\* Calls awaited one after the other, with the accessor called in between
NextAccess ==
  \/ Begin(Named({"shift", "drift"}), 1, MaxAccepts, MaxRejections)
  \/ Resume
  \/ Tick(MaxTime)
  \/ GetModels
  \/ GetMetrics

SpecAccess == Init /\ [][NextAccess]_vars

\* Calls awaited one after the other, long runs of rejections
NextStreak ==
  \/ Begin(Named({"shift", "drift", "two", "untrusted"}),
           1, StreakAccepts, StreakRejections)
  \/ Resume
  \/ Tick(StreakTime)

SpecStreak == Init /\ [][NextStreak]_vars

\* Calls awaited one after the other within one instant, long runs of
\* rejections of every kind
NextReject ==
  \/ Begin(Named({"shift", "drift", "edge", "tight", "two", "untrusted"}),
           1, StreakAccepts, StreakRejections)
  \/ Resume

SpecReject == Init /\ [][NextReject]_vars

\* Calls awaited one after the other within one instant, batches that stop
\* at every step of the pipeline
NextGuard ==
  \/ Begin(Named({"shift", "drift", "same", "two", "untrusted"}) \cup GuardBatches,
           1, MaxAccepts, MaxRejections)
  \/ Resume

SpecGuard == Init /\ [][NextGuard]_vars

\* Calls awaited one after the other within one instant, two-source batches
\* of every shape between updates that are accepted
TwoSourceInputs == Named({"shift"}) \cup TwoSourceBatches(2..4)

NextTwo ==
  \/ Begin(TwoSourceInputs, 1, StreakAccepts, MaxRejections)
  \/ Resume

SpecTwo == Init /\ [][NextTwo]_vars

\* Calls awaited one after the other, long runs of accepted updates
NextLong ==
  \/ Begin(Named({"shift", "drift"}), 1, LongAccepts, LongRejections)
  \/ Resume
  \/ Tick(StreakTime)

SpecLong == Init /\ [][NextLong]_vars

\* Calls started while another is suspended
NextConc ==
  \/ Begin(Named({"shift", "drift"}), MaxInFlight, MaxAccepts, MaxRejections)
  \/ Resume
  \/ Tick(MaxTime)

SpecConc == Init /\ [][NextConc]_vars

\* A gate whose alert callback throws
InitSink == \E golden \in GoldenSets : Construct(golden, "throws")

SpecSink == InitSink /\ [][Next]_vars

\* admissionControl(batch, provenance) called on its own: the caller sees
\* the admitted samples; sourceCount is the Map at the end of the call and
\* earlier the Map at the end of the call before.
AdmitOne(provenance) ==
  \E out \in {admissionControl(SampleBatch(Len(provenance)), provenance)} :
    /\ result' = [op |-> "admissionControl", status |-> "returned",
                  accepted |-> FALSE, reason |-> <<>>, alerts |-> <<>>,
                  value |-> [provenance |-> provenance, admitted |-> out,
                             sourceCount |->
                               AdmitFrom(provenance, 1, Len(provenance), <<>>,
                                         NewSourceCount).sourceCount,
                             earlier |->
                               IF result.op = "admissionControl"
                               THEN result.value.sourceCount ELSE <<>>]]
    /\ UNCHANGED <<goldenSet, alertSink, objs, arrs, adaptiveModel, referenceModel,
                   checkpoints, metrics, lastBreakerTrigger, now, calls, merges,
                   streak, captures>>

Admit == \E provenance \in AdmissionInputs : AdmitOne(provenance)

\* The long batch, as the first call on the gate
AdmitLong == result.op = "constructor" /\ AdmitOne(LongInput)

\* Admission control alone, call after call
NextAdmission ==
  \/ Admit
  \/ AdmitLong

SpecAdmission == Init /\ [][NextAdmission]_vars

\* Step 7 alone: the learning rate for a number of distinct sources, and
\* the blend of a model (mu, Sigma) with a candidate (muNew, SigmaNew)
ManySources == 200

MergeModels ==
  { [mu |-> <<q[1]>>, muNew |-> <<q[2]>>,
     Sigma |-> << <<q[3]>> >>, SigmaNew |-> << <<q[4]>> >>] :
      q \in { <<-1000, 500, 250, 1000>>, <<7, 7, 1000, 1000>>,
              <<0, -333, 1000, 250>>, <<500, -1000, 1, 999>>,
              <<-3, -2, 2, 3>>, <<19, -19, 40, 0>> } }

MergeInputs ==
  { [uniqueSources |-> n, model |-> m] : n \in 1..ManySources, m \in MergeModels }

MergeOne(in) ==
  \E eta \in {computeAdaptiveLearningRate(in.uniqueSources)} :
    /\ result' = [op |-> "merge", status |-> "returned",
                  accepted |-> FALSE, reason |-> <<>>, alerts |-> <<>>,
                  value |-> [uniqueSources |-> in.uniqueSources, eta |-> eta,
                             before |-> in.model,
                             mu |-> mergeMean(in.model.mu, in.model.muNew, eta),
                             Sigma |-> mergeCovariance(in.model.Sigma,
                                                       in.model.SigmaNew, eta)]]
    /\ UNCHANGED <<goldenSet, alertSink, objs, arrs, adaptiveModel, referenceModel,
                   checkpoints, metrics, lastBreakerTrigger, now, calls, merges,
                   streak, captures>>

\* mrcd alone: data sets of 2..MaxData samples over four values, the data
\* sets of the gate, and one of six samples; no, default and full shrinkage;
\* two priors
MaxData == 4

MrcdData ==
  { Vec(AsSeq(q)) : q \in UNION { [1..n -> {-20, 0, 10, 40}] : n \in 2..MaxData } }
    \cup GoldenSets \cup { Vec(<<-30, -20, -10, 0, 10, 200>>) }

MrcdInputs ==
  { [data |-> data, alpha |-> alpha, priorCov |-> priorCov] :
      data \in MrcdData, alpha \in {0, ShrinkAlpha, Scale},
      priorCov \in { Identity(1), << <<Scale \div 4>> >> } }

MrcdOne(in) ==
  /\ result' = [op |-> "mrcd", status |-> "returned",
                accepted |-> FALSE, reason |-> <<>>, alerts |-> <<>>,
                value |-> [data |-> in.data, alpha |-> in.alpha,
                           priorCov |-> in.priorCov,
                           out |-> mrcd(in.data, in.alpha, in.priorCov),
                           trimming |->
                             MrcdTrimming(in.data, in.alpha, in.priorCov,
                                          Len(in.data) \div 2,
                                          MrcdStart(in.data,
                                                    coordinateMedian(in.data)),
                                          0)]]
  /\ UNCHANGED <<goldenSet, alertSink, objs, arrs, adaptiveModel, referenceModel,
                 checkpoints, metrics, lastBreakerTrigger, now, calls, merges,
                 streak, captures>>

\* influenceClip alone: up to MaxClipped samples, among them samples at the
\* radius, next to it and far away; two means, three covariances, two radii
MaxClipped == 2

ClipData ==
  { Vec(AsSeq(q)) :
      q \in UNION { [1..n -> {-400, -61, -60, 0, 7, 59, 60, 65, 400}] :
                      n \in 1..MaxClipped } }

ClipInputs ==
  { [data |-> data, mu |-> mu, Sigma |-> Sigma, radius |-> radius] :
      data \in ClipData, mu \in { <<0>>, <<Scale \div 4>> },
      Sigma \in { Identity(1), << <<Scale \div 4>> >>, << <<4 * Scale>> >> },
      radius \in { clipRadius, Scale } }

ClipOne(in) ==
  /\ result' = [op |-> "influenceClip", status |-> "returned",
                accepted |-> FALSE, reason |-> <<>>, alerts |-> <<>>,
                value |-> [data |-> in.data, mu |-> in.mu, Sigma |-> in.Sigma,
                           radius |-> in.radius,
                           out |-> influenceClip(in.data, in.mu, in.Sigma,
                                                 in.radius)]]
  /\ UNCHANGED <<goldenSet, alertSink, objs, arrs, adaptiveModel, referenceModel,
                 checkpoints, metrics, lastBreakerTrigger, now, calls, merges,
                 streak, captures>>

\* catoniMean alone: up to MaxCatoni samples, near and far; c = 1 and the
\* gate's c; and one data set on which the mean is still moving after
\* maxIters iterations
MaxCatoni == 3

CatoniInputs ==
  { [data |-> Vec(AsSeq(q)), c |-> c] :
      q \in UNION { [1..n -> {-400, -20, 0, 1, 30, 400}] : n \in 1..MaxCatoni },
      c \in { 1, CatoniC } }
  \cup { [data |-> Vec(<<0, 0, 100, 200>>), c |-> CatoniC] }

CatoniOne(in) ==
  /\ result' = [op |-> "catoniMean", status |-> "returned",
                accepted |-> FALSE, reason |-> <<>>, alerts |-> <<>>,
                value |-> [data |-> in.data, c |-> in.c,
                           out |-> catoniMean(in.data, in.c),
                           iterations |->
                             CatoniIterations(in.data, coordinateMedian(in.data),
                                              in.c, 0)]]
  /\ UNCHANGED <<goldenSet, alertSink, objs, arrs, adaptiveModel, referenceModel,
                 checkpoints, metrics, lastBreakerTrigger, now, calls, merges,
                 streak, captures>>

\* The estimators on their own, each called once on a new gate
NextEstimators ==
  \/ result.op = "constructor" /\ \E in \in CatoniInputs : CatoniOne(in)
  \/ result.op = "constructor" /\ \E in \in MrcdInputs : MrcdOne(in)
  \/ result.op = "constructor" /\ \E in \in ClipInputs : ClipOne(in)

SpecEstimators == Init /\ [][NextEstimators]_vars

\* The blend on its own on a new gate, and updates that are merged
NextMerge ==
  \/ result.op = "constructor" /\ \E in \in MergeInputs : MergeOne(in)
  \/ Begin(Named({"shift", "edge"}), 1, MaxAccepts, MaxRejections)
  \/ Resume

SpecMerge == Init /\ [][NextMerge]_vars

\* ------------------------------------------------------------------------
\* Properties
\* ------------------------------------------------------------------------
\* The Adaptive and the Reference model, by value
AdaptiveFields == FieldsOf(objs, arrs, adaptiveModel)

ReferenceFields == FieldsOf(objs, arrs, referenceModel)

\* The Mahalanobis distance of the Adaptive mean from the Reference mean,
\* under the Reference covariance
AdaptiveDrift ==
  LET muA == AdaptiveFields.mu
      muR == ReferenceFields.mu
  IN mahalanobisNorm(AsSeq([i \in 1..Len(muA) |-> muA[i] - muR[i]]),
                     ReferenceFields.Sigma)

\* C1: in every state reached by robustUpdate calls awaited one after the
\* other, the Mahalanobis distance of the Adaptive mean from the Reference
\* mean, under the Reference covariance, is at most tauMu.
C1_AdaptiveMeanWithinCorridor == AdaptiveDrift <= tauMu

\* Two merges were applied, the last call was accepted, and the Adaptive
\* mean has left the Reference mean
C1_Witness ==
  /\ merges >= 2
  /\ calls = <<>>
  /\ result.op = "continue" /\ result.accepted
  /\ AdaptiveDrift > 0

\* C10: in every reachable state the checkpoint history holds at most 20
\* snapshots.
C10_CheckpointHistoryBounded == Len(checkpoints) <= MaxCheckpoints

\* The history is full and its first snapshot was evicted
C10_Witness ==
  /\ Len(checkpoints) = MaxCheckpoints
  /\ objs[checkpoints[1]].checkpoint >= 1

\* C2: after construction no step (an update accepted or rejected, a
\* breaker action, a rollback, a checkpoint, an accessor call) changes the
\* Reference model's mean or covariance.
C2_ReferenceNeverChanges ==
  [][/\ ReferenceFields'.mu = ReferenceFields.mu
     /\ ReferenceFields'.Sigma = ReferenceFields.Sigma]_vars

\* The accessor returned after a merge, a rejection, a breaker's rollback
\* and a checkpoint
C2_Witness ==
  /\ result.op = "getModels"
  /\ merges >= 1
  /\ metrics.update_rejection_rate >= 1
  /\ "anchor_anomaly" \in DOMAIN lastBreakerTrigger
  /\ Len(checkpoints) >= 2

\* C9: a snapshot in the checkpoint history keeps its mean and covariance
\* through every step that leaves it in the history.
C9_CheckpointsImmutable ==
  [][\A i \in 1..Len(checkpoints) : \A j \in 1..Len(checkpoints') :
        checkpoints[i] = checkpoints'[j] =>
          /\ MuOf(objs', arrs', checkpoints'[j]) = MuOf(objs, arrs, checkpoints[i])
          /\ SigmaOf(objs', arrs', checkpoints'[j])
               = SigmaOf(objs, arrs, checkpoints[i])]_vars

\* A breaker rolled the Adaptive model back, a later merge wrote to it, and
\* it now differs from the snapshot it was restored from
C9_Witness ==
  /\ merges >= 2
  /\ "anchor_anomaly" \in DOMAIN lastBreakerTrigger
  /\ AdaptiveFields.timestamp > lastBreakerTrigger["anchor_anomaly"]
  /\ AdaptiveFields.mu # MuOf(objs, arrs, checkpoints[Len(checkpoints)])

\* The newest entry of the checkpoint history, by value
NewestCheckpoint == FieldsOf(objs, arrs, checkpoints[Len(checkpoints)])

\* The outcome r is a rejection by the corridor check of step 6
CorridorFailure(r) == r.reason # <<>> /\ r.reason[1] = "Gate violation"

\* The outcome r is a rejection by admission control or the diversity guard
TurnedAway(r) ==
  r.reason \in {<<"All samples rejected by admission control">>,
                <<"Insufficient source diversity (SNR guard)">>}

C7_StreakEndsAtNewestCheckpoint ==
  streak.n >= RejectionLimit + 1 => AdaptiveFields = NewestCheckpoint

\* The eleventh failure in a row was answered, and the Adaptive model is
\* not what it was before the streak
C7_Witness ==
  /\ streak.n = RejectionLimit + 1
  /\ calls = <<>>
  /\ merges >= 1
  /\ streak.before # AdaptiveFields

\* C8: no step decreases the rejection counter; once it exceeds 10, every
\* further corridor failure replaces the Adaptive model by a copy of the
\* newest checkpoint and raises an alert.
C8_CounterNeverDecreases ==
  [][/\ metrics'.update_rejection_rate >= metrics.update_rejection_rate
     /\ ( /\ metrics.update_rejection_rate > RejectionLimit
          /\ result'.op = "robustUpdate" /\ CorridorFailure(result') ) =>
          /\ adaptiveModel' # adaptiveModel
          /\ AdaptiveFields' = NewestCheckpoint'
          /\ calls'[Len(calls')].pc = "gate_alert"
     /\ ( /\ metrics.update_rejection_rate > RejectionLimit
          /\ result'.op = "continue"
          /\ calls # <<>> /\ calls[1].pc = "gate_alert" ) =>
          result'.alerts = <<"GATE_VIOLATION">>]_vars

\* A corridor failure after the counter had exceeded 10, on a gate that
\* had accepted an update
C8_Witness ==
  /\ metrics.update_rejection_rate = RejectionLimit + 2
  /\ merges >= 1
  /\ result.op = "continue"
  /\ result.alerts = <<"GATE_VIOLATION">>

\* What an update may change between its step 7 and its step 9, and what
\* an aborted update must leave alone
ProtectedNow ==
  Protected(objs, arrs, adaptiveModel, checkpoints, lastBreakerTrigger)

\* A call is suspended after its merge of step 7 and before its step 9
MidUpdate ==
  \E k \in 1..Len(calls) :
     calls[k].pc \in {"breaker_alert", "breakers_done", "breakers_threw"}

\* C4: while one robustUpdate call is between its step 7 and its step 9, no
\* other call started on the same gate changes the Adaptive model, the
\* checkpoint history or the breakers' last triggers.
C4_UpdatesDoNotInterleave ==
  [][(MidUpdate /\ result'.op = "robustUpdate") => ProtectedNow' = ProtectedNow]_vars

\* C5: when a robustUpdate call ends with a thrown error, the Adaptive mean
\* and covariance, the checkpoint history and the breakers' last triggers
\* are what they were when the call started.
C5_AbortLeavesStateUntouched ==
  [][result'.status = "threw" =>
       ProtectedNow' = IF result'.op = "robustUpdate" THEN ProtectedNow
                       ELSE calls[1].before]_vars

\* The indices of the samples that admission control should admit: trust
\* at least minTrust, and fewer than maxPerSource such samples of the same
\* source before it
Admissible(provenance) ==
  {i \in 1..Len(provenance) :
     /\ provenance[i].trust >= minTrust
     /\ Cardinality({j \in 1..(i - 1) :
                       /\ provenance[j].source = provenance[i].source
                       /\ provenance[j].trust >= minTrust}) < maxPerSource}

\* C17: admission control admits, in batch order, exactly the samples whose
\* trust is at least 0.3 and that are among the first 50 such samples of
\* their source within the call.
C17_AdmissionByTrustAndQuota ==
  result.op = "admissionControl" =>
    LET provenance == result.value.provenance
        admitted == result.value.admitted
        batch == SampleBatch(Len(provenance))
        chosen == Admissible(provenance)
    IN /\ Len(admitted) = Cardinality(chosen)
       /\ \A i \in chosen :
            admitted[Cardinality({j \in chosen : j <= i})] = batch[i]
       /\ \A src \in {provenance[i].source : i \in 1..Len(provenance)} :
            Cardinality({i \in chosen : provenance[i].source = src}) <= maxPerSource

\* The long batch of one fully trusted source yielded exactly the quota
C17_Witness ==
  /\ result.op = "admissionControl"
  /\ Len(result.value.provenance) = LongBatch
  /\ Len(result.value.admitted) = maxPerSource

\* C18: the samples admitted from a batch are those a call with fresh
\* per-source counts admits, whatever calls came before.
C18_QuotaDoesNotPersist ==
  [][result'.op = "admissionControl" =>
       \E provenance \in {result'.value.provenance} :
         \E batch \in {SampleBatch(Len(provenance))} :
           \E fresh \in {AdmitFrom(provenance, 1, Len(provenance), <<>>, <<>>).idx} :
             result'.value.admitted = AsSeq([i \in 1..Len(fresh) |-> batch[fresh[i]]])]_vars

\* A source that used up its quota in the call before was admitted up to
\* the quota again
C18_Witness ==
  /\ result.op = "admissionControl"
  /\ "a" \in DOMAIN result.value.earlier
  /\ result.value.earlier["a"] = maxPerSource
  /\ "a" \in DOMAIN result.value.sourceCount
  /\ result.value.sourceCount["a"] = maxPerSource

\* C11: eviction is first in, first out: the history holds the most recently
\* captured snapshots, at most 20 of them, in the order of their capture; after
\* more than 20 captures exactly 20 remain.
C11_EvictionIsFifo ==
  /\ captures.count > MaxCheckpoints => Len(checkpoints) = MaxCheckpoints
  /\ \A i \in 1..Len(checkpoints) :
       captures.serial[checkpoints[i]] = captures.count - Len(checkpoints) + i

\* After 25 captures, 20 snapshots remain and the oldest is the 6th captured
C11_Witness ==
  /\ captures.count = MaxCheckpoints + 5
  /\ Len(checkpoints) = MaxCheckpoints
  /\ captures.serial[checkpoints[1]] = 6

\* C12: the index that checkpoint() gives a snapshot is greater than the index
\* of every snapshot captured before it, so the indices in the history are
\* distinct and increase along it.
C12_CheckpointIndexIncreases ==
  \A i, j \in 1..Len(checkpoints) :
     i < j => objs[checkpoints[i]].checkpoint < objs[checkpoints[j]].checkpoint

\* A step in which rollback() was called: the call concerned waits at the
\* await of line 191 or of line 433
RollbackCalled ==
  /\ result'.op \in {"robustUpdate", "continue"}
  /\ result'.status = "suspended"
  /\ calls' # <<>>
  /\ calls'[Len(calls')].pc \in {"gate_alert", "breaker_alert"}

\* C13: the checkpoint history is never empty, and every call of rollback()
\* replaces the Adaptive model by a new object that equals the newest
\* checkpoint.
C13_HistoryNeverEmpty ==
  /\ [](Len(checkpoints) >= 1)
  /\ [][RollbackCalled =>
          /\ Len(checkpoints) >= 1
          /\ adaptiveModel' # adaptiveModel
          /\ adaptiveModel' \notin {checkpoints'[i] : i \in 1..Len(checkpoints')}
          /\ AdaptiveFields' = NewestCheckpoint']_vars

\* A gate that has rolled back (the anchor_anomaly breaker) and has since
\* evicted snapshots from a full history
C13_Witness ==
  /\ "anchor_anomaly" \in DOMAIN lastBreakerTrigger
  /\ captures.count > MaxCheckpoints
  /\ Len(checkpoints) = MaxCheckpoints

\* The types of the alerts raised in the step a caller was just told of
Alerted(r) == {r.alerts[k] : k \in 1..Len(r.alerts)}

\* The action of breaker i was executed in this step: a rollback leaves the
\* call at the await of line 433, a freeze or an alert raises the alert
Executed(i) ==
  IF breakers[i].action = "rollback"
  THEN /\ result'.status = "suspended"
       /\ calls' # <<>>
       /\ calls'[Len(calls')].pc = "breaker_alert"
       /\ calls'[Len(calls')].i = i
  ELSE breakers[i].type \in Alerted(result')

\* C14: a breaker that triggered at instant t is not triggered again before
\* t + cooldown: its last-trigger instant moves by at least its cooldown, and
\* its action is executed only when it never triggered or its cooldown has
\* elapsed.
C14_CooldownBetweenTriggers ==
  [][result'.op \in {"robustUpdate", "continue"} =>
       \A i \in 1..Len(breakers) :
          LET name == breakers[i].name
              triggered == name \in DOMAIN lastBreakerTrigger
          IN /\ triggered =>
                  /\ name \in DOMAIN lastBreakerTrigger'
                  /\ \/ lastBreakerTrigger'[name] = lastBreakerTrigger[name]
                     \/ lastBreakerTrigger'[name] - lastBreakerTrigger[name]
                          >= breakers[i].cooldown
             /\ Executed(i) =>
                  /\ triggered =>
                       now - lastBreakerTrigger[name] >= breakers[i].cooldown
                  /\ lastBreakerTrigger'[name] = now]_vars

\* An update was merged while provenance_concentration, whose condition
\* holds, was inside its cooldown: the breaker was passed over
C14_Witness ==
  /\ result.op = "robustUpdate" /\ result.status = "suspended"
  /\ calls # <<>> /\ calls[1].pc = "breakers_done"
  /\ merges = 2
  /\ result.alerts = <<>>
  /\ BreakerCondition("provenance_concentration", metrics)
  /\ "provenance_concentration" \in DOMAIN lastBreakerTrigger
  /\ now - lastBreakerTrigger["provenance_concentration"] < 60

\* Breaker i triggered in this step: its last-trigger instant was set
Triggered(i) ==
  /\ breakers[i].name \in DOMAIN lastBreakerTrigger'
  /\ \/ breakers[i].name \notin DOMAIN lastBreakerTrigger
     \/ lastBreakerTrigger'[breakers[i].name] # lastBreakerTrigger[breakers[i].name]

\* Some breaker whose action is freeze or alert is inside its cooldown
Frozen ==
  \E i \in 1..Len(breakers) :
     /\ breakers[i].action \in {"freeze", "alert"}
     /\ Cooling(Gate, breakers[i], now)

AlertCount(r, type) == Cardinality({k \in 1..Len(r.alerts) : r.alerts[k] = type})

\* The call taken up in this step was waiting at pc
ResumedAt(pc) ==
  result'.op = "continue" /\ calls # <<>> /\ calls[1].pc = pc

\* C16: the alert sink receives one alert per breaker trigger, of the
\* breaker's upper-cased name, and one GATE_VIOLATION per rollback forced by
\* the rejection counter, after the trigger was recorded and the rollback
\* done, and no other alert (calls awaited one after the other).
C16_OneAlertPerTrigger ==
  [][result'.op \in {"robustUpdate", "continue"} =>
       /\ Alerted(result') \subseteq
            {breakers[i].type : i \in 1..Len(breakers)} \cup {"GATE_VIOLATION"}
       /\ \A i \in 1..Len(breakers) :
            IF breakers[i].action = "rollback"
            THEN /\ Triggered(i) =>
                      /\ Executed(i)
                      /\ AdaptiveFields' = NewestCheckpoint'
                 /\ AlertCount(result', breakers[i].type)
                      = IF ResumedAt("breaker_alert") /\ calls[1].i = i THEN 1 ELSE 0
                 /\ (ResumedAt("breaker_alert") /\ calls[1].i = i) =>
                      /\ result'.alerts[1] = breakers[i].type
                      /\ lastBreakerTrigger[breakers[i].name] <= now
            ELSE AlertCount(result', breakers[i].type)
                   = IF Triggered(i) THEN 1 ELSE 0
       /\ ( /\ result'.op = "robustUpdate" /\ CorridorFailure(result')
            /\ metrics'.update_rejection_rate > RejectionLimit ) =>
              /\ result'.status = "suspended"
              /\ calls'[Len(calls')].pc = "gate_alert"
              /\ AdaptiveFields' = NewestCheckpoint'
       /\ AlertCount(result', "GATE_VIOLATION")
            = IF ResumedAt("gate_alert") THEN 1 ELSE 0
       /\ (result'.op = "robustUpdate" /\ result'.status = "suspended") =>
            calls'[Len(calls')].pc
              \in {"gate_alert", "breaker_alert", "breakers_done", "breakers_threw"}]_vars

\* After more than 10 rejections an update was merged: the call, taken up
\* after the rollback of anchor_anomaly, raised that breaker's alert and then
\* those of the two breakers that triggered next, each once
C16_Witness ==
  /\ result.op = "continue"
  /\ result.alerts = <<"ANCHOR_ANOMALY", "PROVENANCE_CONCENTRATION",
                       "UPDATE_REJECTION_SPIKE">>
  /\ metrics.update_rejection_rate > RejectionLimit

\* The labels the diversity guard of a call works on: the sources of the
\* first k provenance records, for k samples admitted
GuardLabels(provenance) ==
  AsSeq([i \in 1..Cardinality(Admissible(provenance)) |-> provenance[i].source])

\* C19: a robustUpdate whose batch has no admissible sample returns
\* accepted = false with the reason of admission control, does not throw or
\* alert, and changes no metric, no model, no snapshot and no last-trigger
\* instant.
C19_NothingAdmittedNothingChanged ==
  [][( /\ result'.op = "robustUpdate"
       /\ Admissible(result'.value.provenance) = {} ) =>
          /\ result'.status = "returned"
          /\ ~result'.accepted
          /\ result'.reason = <<"All samples rejected by admission control">>
          /\ result'.alerts = <<>>
          /\ metrics' = metrics
          /\ objs' = objs /\ arrs' = arrs
          /\ adaptiveModel' = adaptiveModel
          /\ checkpoints' = checkpoints
          /\ lastBreakerTrigger' = lastBreakerTrigger
          /\ calls' = calls]_vars

\* A batch without admissible samples was turned away by a gate that had
\* merged an update, triggered a breaker and counted a rejection
C19_Witness ==
  /\ result.op = "robustUpdate"
  /\ result.reason = <<"All samples rejected by admission control">>
  /\ metrics.provenance_entropy > 0
  /\ metrics.herfindahl_index > 0
  /\ metrics.update_rejection_rate >= 1
  /\ merges >= 1
  /\ DOMAIN lastBreakerTrigger # {}

SourcesOf(provenance) == {provenance[i].source : i \in 1..Len(provenance)}

\* The original reading: a two-source batch is rejected at the diversity
\* guard, whatever its trust scores.
C21_TwoSourcesRejectedAtGuard ==
  [][( /\ result'.op = "robustUpdate"
       /\ Cardinality(SourcesOf(result'.value.provenance)) = 2 ) =>
          /\ result'.status = "returned" /\ ~result'.accepted
          /\ result'.reason = <<"Insufficient source diversity (SNR guard)">>]_vars

\* C21: a batch whose provenance names exactly 2 distinct sources is never
\* merged or accepted: it is rejected at the diversity guard when at least
\* one of its samples is admitted, and by admission control when none is,
\* in both cases before the corridor check (no rejection is counted, no
\* alert raised).
C21_TwoSourcesAlwaysRejected ==
  [][( /\ result'.op = "robustUpdate"
       /\ Cardinality(SourcesOf(result'.value.provenance)) = 2 ) =>
          /\ result'.status = "returned" /\ ~result'.accepted
          /\ merges' = merges
          /\ AdaptiveFields' = AdaptiveFields
          /\ metrics'.update_rejection_rate = metrics.update_rejection_rate
          /\ result'.alerts = <<>>
          /\ result'.reason =
               IF Admissible(result'.value.provenance) = {}
               THEN <<"All samples rejected by admission control">>
               ELSE <<"Insufficient source diversity (SNR guard)">>]_vars

\* A two-source batch of four samples, one of them below the trust
\* threshold, was turned away by the guard of a gate that had merged
C21_Witness ==
  /\ result.op = "robustUpdate"
  /\ Cardinality(SourcesOf(result.value.provenance)) = 2
  /\ Len(result.value.provenance) = 4
  /\ Cardinality(Admissible(result.value.provenance)) = 3
  /\ result.reason = <<"Insufficient source diversity (SNR guard)">>
  /\ merges >= 1

\* The sources of the admitted samples themselves: the i-th admitted sample
\* is batch[idx[i]], and its provenance record is provenance[idx[i]]
OwnLabels(provenance) ==
  LET idx == AdmittedIdx(provenance, Len(provenance))
  IN AsSeq([i \in 1..Len(idx) |-> provenance[idx[i]].source])

\* C22: the diversity guard attributes every admitted sample to its own
\* provenance record: after a robustUpdate that admits a sample, the entropy
\* and Herfindahl metrics are those of the sources of the admitted samples,
\* and the guard rejects exactly when these sources are fewer than 3 or
\* their entropy is below 1.5, also when admission dropped samples from the
\* middle or the front of the batch.
C22_OwnProvenance ==
  [][( /\ result'.op = "robustUpdate"
       /\ Admissible(result'.value.provenance) # {} ) =>
          \E own \in {OwnLabels(result'.value.provenance)} :
            /\ metrics'.provenance_entropy = computeEntropy(own)
            /\ metrics'.herfindahl_index = computeHerfindahl(own)
            /\ (result'.reason = <<"Insufficient source diversity (SNR guard)">>)
                 <=> InsufficientDiversity(Cardinality(LabelSet(own)),
                                           computeEntropy(own))]_vars

\* C23: the corridor check evaluates mean drift, then the spectral corridor,
\* then the KL divergence, and stops at the first failure: the reason of a
\* corridor rejection names the first failing check, the mean-drift metric
\* is that of the candidate on every evaluation, and the KL metric is that
\* of the candidate exactly when mean drift and spectral corridor passed
\* (it keeps its former value otherwise).  The candidate is the estimate of
\* one of the samplings of the batch.
C23_CorridorOrder ==
  [][( /\ result'.op = "robustUpdate"
       /\ (CorridorFailure(result') \/ merges' # merges) ) =>
          \E stratified \in Samplings(result'.value) :
          \E SigmaR \in {SigmaOf(objs, arrs, referenceModel)} :
          \E est \in {Estimate(stratified, MuOf(objs, arrs, adaptiveModel),
                               SigmaOf(objs, arrs, adaptiveModel), SigmaR)} :
          \E drift \in {mahalanobisNorm(
                           AsSeq([i \in 1..Len(est.muNew) |->
                                    est.muNew[i] - MuOf(objs, arrs, referenceModel)[i]]),
                           SigmaR)} :
          \E spectral \in {spectralCorridorCheck(est.SigmaNew, SigmaR, tauSigma)} :
            LET kl == computeKLDivergence(est.muNew, est.SigmaNew,
                                          MuOf(objs, arrs, referenceModel), SigmaR)
            IN /\ ~est.thrown
               /\ metrics'.mahalanobis_drift = drift
               /\ metrics'.kl_divergence = IF drift <= tauMu /\ spectral THEN kl
                                           ELSE metrics.kl_divergence
               /\ IF drift > tauMu
                  THEN result'.reason = <<"Gate violation", "Mean drift too large">>
                  ELSE IF ~spectral
                  THEN result'.reason =
                         <<"Gate violation", "Spectral norm outside corridor">>
                  ELSE IF kl > klThreshold
                  THEN result'.reason = <<"Gate violation", "KL divergence too large">>
                  ELSE ~CorridorFailure(result') /\ merges' = merges + 1]_vars

\* The spectral corridor turned a candidate away whose mean drift had
\* passed, on a gate whose KL metric stems from an earlier evaluation
C23_Witness ==
  /\ result.op = "robustUpdate"
  /\ result.reason = <<"Gate violation", "Spectral norm outside corridor">>
  /\ metrics.mahalanobis_drift <= tauMu
  /\ metrics.kl_divergence > 0
  /\ metrics.update_rejection_rate >= 2

\* new is old blended with the candidate at rate eta: (1 - eta) old + eta
\* candidate up to the last digit, and between the two
Blended(old, candidate, eta, new) ==
  /\ Abs(Scale * new - ((Scale - eta) * old + eta * candidate)) < Scale
  /\ Min2(old, candidate) <= new
  /\ new <= Max2(old, candidate)

\* eta is min(etaMax, 1 / (1 + 0.1 n)), up to the last digit
LearningRate(n, eta) ==
  /\ 0 < eta
  /\ eta <= etaMax
  /\ eta * (10 + n) <= 10 * Scale
  /\ eta = etaMax \/ (eta + 1) * (10 + n) > 10 * Scale

\* C24: the learning rate of a merge is eta = min(etaMax, 1 / (1 + 0.1 x
\* number of distinct sources)), so 0 < eta <= etaMax, and the merged mean
\* and covariance are elementwise (1 - eta) old + eta candidate, hence
\* between the old and the candidate value; this holds of the blend on its
\* own and of every update that robustUpdate merges.
C24_ConvexMerge ==
  [][/\ result'.op = "merge" =>
          \E v \in {result'.value} :
            /\ LearningRate(v.uniqueSources, v.eta)
            /\ Blended(v.before.mu[1], v.before.muNew[1], v.eta, v.mu[1])
            /\ Blended(v.before.Sigma[1][1], v.before.SigmaNew[1][1], v.eta,
                       v.Sigma[1][1])
     /\ ( /\ result'.op = "robustUpdate"
          /\ merges' # merges
          /\ ~RollbackCalled ) =>
          \E stratified \in Samplings(result'.value) :
          \E est \in {Estimate(stratified, MuOf(objs, arrs, adaptiveModel),
                               SigmaOf(objs, arrs, adaptiveModel),
                               SigmaOf(objs, arrs, referenceModel))} :
          \E eta \in {etaMax} :
            /\ LearningRate(Cardinality(LabelSet(GuardLabels(result'.value.provenance))),
                            eta)
            /\ Blended(AdaptiveFields.mu[1], est.muNew[1], eta, AdaptiveFields'.mu[1])
            /\ Blended(AdaptiveFields.Sigma[1][1], est.SigmaNew[1][1], eta,
                       AdaptiveFields'.Sigma[1][1])]_vars

\* Many sources: the rate is below etaMax, and the blend lies strictly
\* between the old value and the candidate
C24_Witness ==
  /\ result.op = "merge"
  /\ result.value.uniqueSources > 190
  /\ result.value.eta < etaMax
  /\ result.value.before.mu[1] < result.value.mu[1]
  /\ result.value.mu[1] < result.value.before.muNew[1]

\* The checkpoint history, by value
HistoryFields == AsSeq([k \in 1..Len(checkpoints) |-> FieldsOf(objs, arrs, checkpoints[k])])

\* C25: getMetrics() and getModels() return copies that share no mutable
\* structure with the gate: what they return are the metrics and the two
\* models as they are, and after the caller has overwritten every metric,
\* every mean, every covariance row and every timestamp it was handed, the
\* gate's metrics, models and checkpoints are unchanged; every later
\* accessor call again returns them as they are.
C25_AccessorsReturnCopies ==
  [][/\ result'.op = "getModels" =>
          /\ result'.value = <<AdaptiveFields, ReferenceFields>>
          /\ AdaptiveFields' = AdaptiveFields
          /\ ReferenceFields' = ReferenceFields
          /\ HistoryFields' = HistoryFields
          /\ metrics' = metrics
     /\ result'.op = "getMetrics" =>
          /\ result'.value = metrics
          /\ metrics' = metrics
          /\ AdaptiveFields' = AdaptiveFields
          /\ ReferenceFields' = ReferenceFields
          /\ HistoryFields' = HistoryFields]_vars

\* getModels() was called on a gate whose Adaptive model had been merged at
\* a later instant, so that the zeros the caller writes differ from what the
\* gate holds
C25_Witness ==
  /\ result.op = "getModels"
  /\ merges >= 1
  /\ AdaptiveFields.timestamp > 0
  /\ AdaptiveFields.mu # ReferenceFields.mu
  /\ AdaptiveFields.Sigma[1][1] > 0
  /\ metrics.mahalanobis_drift > 0

\* The arrays and the Date that the ModelState at address m holds
StorageOf(m) ==
  {objs[m].mu, objs[m].timestamp} \cup {objs[m].Sigma[i] : i \in 1..Len(objs[m].Sigma)}

\* C26: right after construction the Adaptive model equals the Reference
\* model and shares no storage with it, the checkpoint history holds exactly
\* one snapshot, equal to the Reference model and with index 0, the
\* rejection counter is 0, no breaker has a last-trigger instant, and there
\* are exactly five breakers.
C26_AfterConstruction ==
  result.op = "constructor" =>
    /\ AdaptiveFields = ReferenceFields
    /\ adaptiveModel # referenceModel
    /\ StorageOf(adaptiveModel) \cap StorageOf(referenceModel) = {}
    /\ Len(checkpoints) = 1
    /\ FieldsOf(objs, arrs, checkpoints[1]) = ReferenceFields
    /\ ReferenceFields.checkpoint = 0
    /\ checkpoints[1] \notin {adaptiveModel, referenceModel}
    /\ metrics.update_rejection_rate = 0
    /\ lastBreakerTrigger = <<>>
    /\ Len(breakers) = 5
    /\ Cardinality({breakers[i].name : i \in 1..Len(breakers)}) = 5

\* A gate built on the golden set with the outlier, before any call
C26_Witness ==
  /\ result.op = "constructor"
  /\ goldenSet = Vec(<<-20, -10, 0, 10, 200>>)
  /\ ReferenceFields.mu # <<0>>
  /\ ReferenceFields.Sigma[1][1] > 0
  /\ calls = <<>>

\* The admitted samples of source l, as indices of the batch, and the sum
\* of their trust scores
OwnStratum(provenance, l) == {i \in Admissible(provenance) : provenance[i].source = l}

RECURSIVE TrustOf(_, _)
TrustOf(provenance, S) ==
  IF S = {} THEN 0
  ELSE LET i == CHOOSE i \in S : TRUE
       IN provenance[i].trust + TrustOf(provenance, S \ {i})

\* C27: for every stratum of the sampling step of robustUpdate, the sampler
\* returns min(stratum size, ceil(stratumTrust / totalTrust x 200)) samples,
\* size and trust being those of the admitted samples of that source, each
\* returned sample is an admitted sample of that source and is returned at
\* most once, and the whole output has at most 200 + number of strata
\* samples.  Samples are named by their index in the batch.
C27_StratifiedSampling ==
  [][( /\ result'.op = "robustUpdate"
       /\ Admissible(result'.value.provenance) # {}
       /\ result'.reason # <<"Insufficient source diversity (SNR guard)">> ) =>
          \E provenance \in {result'.value.provenance} :
          \E idx \in {AdmittedIdx(provenance, Len(provenance))} :
            /\ \A l \in LabelSet(GuardLabels(provenance)) :
                 \E own \in {OwnStratum(provenance, l)} :
                 \E quota \in {(TrustOf(provenance, own) * ReservoirCapacity
                                  + TrustOf(provenance, Admissible(provenance)) - 1)
                                \div TrustOf(provenance, Admissible(provenance))} :
                   \A sel \in weightedReservoir(
                                StratumItems(idx, provenance, l, Len(idx)),
                                StratumQuota(provenance, Len(idx), l, ReservoirCapacity)) :
                     /\ Len(sel) = Min2(Cardinality(own), quota)
                     /\ \A j \in 1..Len(sel) : sel[j] \in own
                     /\ \A j, k \in 1..Len(sel) : j # k => sel[j] # sel[k]
            /\ \A out \in stratifiedReservoir(idx, provenance, ReservoirCapacity) :
                 Len(out) <= ReservoirCapacity
                               + Cardinality(LabelSet(OwnLabels(provenance)))]_vars

\* The estimate of mrcd after r rounds, every round carried out
RECURSIVE MrcdAfter(_, _, _, _)
MrcdAfter(data, alpha, priorCov, r) ==
  IF r = 0 THEN MrcdStart(data, coordinateMedian(data))
  ELSE CHOOSE next \in {MrcdRound(data, alpha, priorCov, Len(data) \div 2, fit) :
                          fit \in {MrcdAfter(data, alpha, priorCov, r - 1)}} : TRUE

\* C28: whenever mrcd returns, with alpha = 0 the returned covariance is the
\* prior exactly, for every data set, and with alpha = 1 it is the raw
\* sample covariance of the h samples selected in the final round (the h
\* closest to the estimate of the round before), without the prior.
C28_ShrinkageLimits ==
  [][result'.op = "mrcd" =>
       \E v \in {result'.value} :
         ~v.out.thrown =>
           /\ v.alpha = 0 => v.out.covariance = v.priorCov
           /\ v.alpha = Scale =>
                \E fit \in {MrcdAfter(v.data, v.alpha, v.priorCov, MrcdRounds - 1)} :
                \E subset \in {TakeFirst(v.data,
                                          SortIdx(Len(v.data),
                                                  Distances(v.data, fit.mean,
                                                            fit.covariance)),
                                          Len(v.data) \div 2)} :
                  /\ v.out.mean = mean(subset)
                  /\ v.out.covariance = sampleCovariance(subset, mean(subset))]_vars

\* C29: influenceClip returns as many samples as it is given, in the same
\* order, and the Mahalanobis distance of every returned sample from mu under
\* Sigma is at most clipRadius: a sample within the radius is returned as it
\* is, a sample beyond it lies on the same side of mu as before, no farther
\* from mu.
C29_ClippedWithinRadius ==
  [][result'.op = "influenceClip" =>
       \E v \in {result'.value} :
         /\ Len(v.out) = Len(v.data)
         /\ \A k \in 1..Len(v.data) :
              /\ mahalanobisDistance(v.out[k], v.mu, v.Sigma) <= v.radius
              /\ IF mahalanobisDistance(v.data[k], v.mu, v.Sigma) <= v.radius
                 THEN v.out[k] = v.data[k]
                 ELSE /\ Sgn(v.out[k][1] - v.mu[1]) = Sgn(v.data[k][1] - v.mu[1])
                      /\ Abs(v.out[k][1] - v.mu[1]) < Abs(v.data[k][1] - v.mu[1])]_vars

\* Two samples, the first beyond the radius and moved, the second within it
\* and kept, about a mean that is not the origin
C29_Witness ==
  /\ result.op = "influenceClip"
  /\ Len(result.value.data) = 2
  /\ result.value.mu # <<0>>
  /\ result.value.out[1] # result.value.data[1]
  /\ result.value.out[2] = result.value.data[2]
  /\ mahalanobisDistance(result.value.data[1], result.value.mu, result.value.Sigma)
       > 2 * result.value.radius
  /\ mahalanobisDistance(result.value.out[1], result.value.mu, result.value.Sigma)
       > result.value.radius - Scale \div 100

\* The mean of catoniMean after r iterations, every iteration carried out
RECURSIVE CatoniAfter(_, _, _)
CatoniAfter(data, c, r) ==
  IF r = 0 THEN coordinateMedian(data)
  ELSE CHOOSE next \in {CatoniStep(data, mu, c) :
                          mu \in {CatoniAfter(data, c, r - 1)}} : TRUE

\* weight x norm is tanh(min(norm / c, 3)) up to the last digit of the
\* weight, at most tanh(3), and below 1 (in units of 1 / Scale^2)
BoundedInfluence(weight, norm, c) ==
  \E t \in {TanhFine(Min2((norm * Scale) \div c, 3 * Scale * Scale))} :
    /\ weight * norm <= t
    /\ norm = 0 \/ weight * norm > t - norm
    /\ weight * norm <= TanhFine(3 * Scale * Scale)
    /\ weight * norm < Scale * Scale

\* C30: in every iteration of catoniMean the weighted residual of every
\* sample has norm weight x ||r|| = tanh(min(||r|| / c, 3)), which is at most
\* tanh(3) and below 1, however far the sample lies; the result is the mean
\* of the last iteration.
C30_BoundedInfluence ==
  [][result'.op = "catoniMean" =>
       \E v \in {result'.value} :
         /\ v.out = CatoniAfter(v.data, v.c, CatoniMaxIters)
         /\ \A r \in 0..(CatoniMaxIters - 1) :
              \E residuals \in {Residuals(v.data, CatoniAfter(v.data, v.c, r))} :
              \E weights \in {CatoniWeights(residuals, v.c)} :
                \A i \in 1..Len(residuals) :
                  BoundedInfluence(weights[i],
                                   FxSqrt(Dot(residuals[i], residuals[i])), v.c)]_vars

\* Three samples, one of them more than 3 c away from the result, so that
\* its weight is tanh(3) / norm, and the result is not the median
C30_Witness ==
  /\ result.op = "catoniMean"
  /\ Len(result.value.data) = 3
  /\ result.value.out # coordinateMedian(result.value.data)
  /\ \E i \in 1..3 :
       Abs(result.value.data[i][1] - result.value.out[1]) > 3 * result.value.c * Scale
  /\ \E i \in 1..3 :
       Abs(result.value.data[i][1] - result.value.out[1]) < result.value.c * Scale

\* A step of a robustUpdate call that returns accepted = false: its return
\* at line 144, 162 or 195, or its rollback of line 191
RejectedStep ==
  \/ /\ result'.op \in {"robustUpdate", "continue"}
     /\ result'.status = "returned" /\ ~result'.accepted
  \/ /\ result'.op = "robustUpdate" /\ result'.status = "suspended"
     /\ calls' # <<>> /\ calls'[Len(calls')].pc = "gate_alert"

\* C31: a robustUpdate that returns accepted = false, whatever the reason,
\* leaves the breakers' last-trigger instants, the anchor anomaly rate and
\* the checkpoint history (its snapshots and their contents) as they were;
\* the history changes only in step 9 of an update that is accepted, at an
\* instant inside the checkpoint window.
C31_RejectionEvaluatesNothing ==
  [][/\ RejectedStep =>
          /\ lastBreakerTrigger' = lastBreakerTrigger
          /\ metrics'.anchor_anomaly_rate = metrics.anchor_anomaly_rate
          /\ checkpoints' = checkpoints
          /\ HistoryFields' = HistoryFields
          /\ captures' = captures
     /\ (checkpoints' # checkpoints \/ HistoryFields' # HistoryFields) =>
          /\ result'.op = "continue"
          /\ result'.status = "returned" /\ result'.accepted
          /\ calls # <<>> /\ calls[1].pc = "breakers_done"
          /\ now % CheckpointPeriod < CheckpointWindow
          /\ captures'.count = captures.count + 1]_vars

\* A rejection that rolled back has returned on a gate whose breakers have
\* triggered, whose anchor anomaly rate is positive and whose history holds
\* a snapshot taken in step 9
C31_Witness ==
  /\ result.op = "continue" /\ result.status = "returned" /\ ~result.accepted
  /\ result.alerts = <<"GATE_VIOLATION">>
  /\ lastBreakerTrigger # <<>>
  /\ Len(checkpoints) >= 2

\* A step in which breakers are evaluated: the step of a call that merges
\* and enters checkCircuitBreakers(), or the step that takes the loop up
\* again after the await of a rollback
BreakersEvaluated ==
  \/ result'.op = "robustUpdate" /\ merges' = merges + 1
  \/ result'.op = "continue" /\ calls # <<>> /\ calls[1].pc = "breaker_alert"

\* C32: with calls awaited one after the other the kl_divergence_spike
\* breaker never triggers: whenever breakers are evaluated the recorded KL
\* divergence is at most klThreshold, so the breaker's condition is false,
\* its last-trigger instant is never set and its alert is never raised.
C32_KlSpikeNeverTriggers ==
  /\ []("kl_divergence_spike" \notin DOMAIN lastBreakerTrigger)
  /\ [][BreakersEvaluated =>
          /\ metrics'.kl_divergence <= klThreshold
          /\ ~BreakerCondition("kl_divergence_spike", metrics')
          /\ \A k \in 1..Len(result'.alerts) :
               result'.alerts[k] # "KL_DIVERGENCE_SPIKE"]_vars

\* After a corridor rejection an update was merged with a positive KL
\* divergence, the anchor_anomaly breaker rolled back, and the loop has
\* passed the kl_divergence_spike breaker
C32_Witness ==
  /\ result.op = "continue"
  /\ calls # <<>> /\ calls[1].pc = "breakers_done"
  /\ "anchor_anomaly" \in DOMAIN lastBreakerTrigger
  /\ metrics.kl_divergence > 0
  /\ metrics.update_rejection_rate >= 1

\* The number of distinct sources the admitted samples of a call come from
OwnSourceCount(provenance) ==
  Cardinality({provenance[i].source : i \in Admissible(provenance)})

\* The provenance_concentration breaker was passed in this step although
\* it was not cooling: no last-trigger instant was set, no alert raised
ConcentrationPassedOver ==
  /\ ~Cooling(Gate, breakers[2], now)
  /\ \/ "provenance_concentration" \notin DOMAIN lastBreakerTrigger'
     \/ lastBreakerTrigger'["provenance_concentration"] # now
     \/ \A k \in 1..Len(result'.alerts) :
          result'.alerts[k] # "PROVENANCE_CONCENTRATION"

\* C33: every accepted update whose admitted samples come from at most 4
\* distinct sources triggers the provenance_concentration breaker (its
\* last-trigger instant is set and its alert raised) unless the breaker is
\* inside its cooldown; the trigger is avoided only with 5 sources or more.
\* The breaker is evaluated in the step that merges, or after the await of
\* an anchor_anomaly rollback.
C33_ConcentrationTriggers ==
  [][/\ ( /\ result'.op = "robustUpdate" /\ merges' = merges + 1
          /\ calls' # <<>> /\ calls'[1].pc = "breakers_done"
          /\ ConcentrationPassedOver ) =>
            OwnSourceCount(result'.value.provenance) >= 5
     /\ ( /\ result'.op = "continue" /\ result.op = "robustUpdate"
          /\ calls # <<>> /\ calls[1].pc = "breaker_alert" /\ calls[1].i = 1
          /\ calls' # <<>> /\ calls'[1].pc = "breakers_done"
          /\ ConcentrationPassedOver ) =>
            OwnSourceCount(result.value.provenance) >= 5]_vars

\* C34: the metric vpin is 0 in every reachable state, also after the
\* caller of getMetrics() has overwritten what it was handed, so the
\* toxic_flow breaker never triggers: its condition is false, it has no
\* last-trigger instant and its alert is never raised.
C34_VpinStaysZero ==
  /\ metrics.vpin = 0
  /\ ~BreakerCondition("toxic_flow", metrics)
  /\ "toxic_flow" \notin DOMAIN lastBreakerTrigger
  /\ \A k \in 1..Len(result.alerts) : result.alerts[k] # "TOXIC_FLOW"

\* getMetrics() was called, and its caller wrote to the object, on a gate
\* whose breakers have been evaluated and have triggered
C34_Witness ==
  /\ result.op = "getMetrics"
  /\ result.value.vpin = 0
  /\ merges >= 1
  /\ lastBreakerTrigger # <<>>

\* A breaker whose action is rollback has triggered since the call began
RolledBackInCall(call) ==
  \E i \in 1..Len(breakers) :
     /\ breakers[i].action = "rollback"
     /\ breakers[i].name \in DOMAIN lastBreakerTrigger
     /\ \/ breakers[i].name \notin DOMAIN call.before.lastBreakerTrigger
        \/ lastBreakerTrigger[breakers[i].name]
             # call.before.lastBreakerTrigger[breakers[i].name]

\* C35: a robustUpdate whose update passed the corridor check and was
\* merged, and in which a breaker with action rollback triggered in step 8,
\* returns accepted = true without a reason, although the mean and the
\* covariance of the Adaptive model are then those of the newest checkpoint,
\* which are those of the newest snapshot taken before the call began: the
\* merge of the update is gone.
C35_AcceptedAfterRollback ==
  [][( /\ result'.op = "continue" /\ result'.status = "returned"
       /\ calls # <<>> /\ RolledBackInCall(calls[1]) ) =>
          \E taken \in {calls[1].before.checkpoints[Len(calls[1].before.checkpoints)]} :
            /\ result'.accepted /\ result'.reason = <<>>
            /\ AdaptiveFields'.mu = NewestCheckpoint'.mu
            /\ AdaptiveFields'.Sigma = NewestCheckpoint'.Sigma
            /\ AdaptiveFields'.mu = taken.mu
            /\ AdaptiveFields'.Sigma = taken.Sigma
            /\ AdaptiveFields'.timestamp = taken.timestamp
            /\ AdaptiveFields'.checkpoint = taken.checkpoint]_vars

\* The second update of a gate was merged, anchor_anomaly rolled it back
\* together with the first, and the call has returned accepted = true
C35_Witness ==
  /\ result.op = "continue" /\ result.status = "returned" /\ result.accepted
  /\ merges = 2
  /\ calls = <<>>
  /\ "anchor_anomaly" \in DOMAIN lastBreakerTrigger
  /\ lastBreakerTrigger["anchor_anomaly"] > 0
  /\ AdaptiveFields.mu = NewestCheckpoint.mu
  /\ AdaptiveFields.timestamp < lastBreakerTrigger["anchor_anomaly"]

\* C36: on the accept path nothing runs between the clipping of step 4 and
\* the merge of step 7, also when calls are started while others are
\* suspended: the step that merges writes, into the Adaptive object it found,
\* the blend of the mean and covariance it found with the candidate that was
\* estimated from the batch clipped against that same mean and covariance.
C36_MergeOntoClippedState ==
  [][( /\ result'.op = "robustUpdate"
       /\ merges' = merges + 1
       /\ ~RollbackCalled ) =>
          \E stratified \in Samplings(result'.value) :
          \E est \in {Estimate(stratified, AdaptiveFields.mu, AdaptiveFields.Sigma,
                               ReferenceFields.Sigma)} :
          \E eta \in {computeAdaptiveLearningRate(
                         Cardinality(LabelSet(GuardLabels(result'.value.provenance))))} :
            /\ ~est.thrown
            /\ adaptiveModel' = adaptiveModel
            /\ AdaptiveFields'.mu = mergeMean(AdaptiveFields.mu, est.muNew, eta)
            /\ AdaptiveFields'.Sigma =
                 mergeCovariance(AdaptiveFields.Sigma, est.SigmaNew, eta)
            /\ AdaptiveFields'.timestamp = now
            /\ calls' # <<>>
            /\ calls'[Len(calls')].pc \in {"breakers_done", "breakers_threw"}]_vars

\* A call has merged its update while an earlier call, whose merge is in
\* no checkpoint, was suspended after its own merge
C36_Witness ==
  /\ result.op = "robustUpdate"
  /\ Len(calls) = 2
  /\ calls[1].pc = "breakers_done" /\ calls[2].pc = "breakers_done"
  /\ merges = 2
  /\ AdaptiveFields.mu # NewestCheckpoint.mu
  /\ AdaptiveFields.mu # calls[2].before.mu
  /\ calls[2].before.mu # NewestCheckpoint.mu

\* C37: the metric spectral_norm keeps the value 1 it got at construction:
\* no corridor evaluation records a spectral value, whether the candidate
\* passes, fails at the spectral check or fails at another check.
C37_SpectralNormStaysOne == metrics.spectral_norm = Scale

\* After an update was merged, the spectral check has turned away a
\* candidate whose covariance differs from the Reference's
C37_Witness ==
  /\ result.op = "robustUpdate" /\ result.status = "returned"
  /\ result.reason = <<"Gate violation", "Spectral norm outside corridor">>
  /\ merges >= 1
  /\ metrics.kl_divergence > 0

\* C38: influenceClip returns every sample whose Mahalanobis distance from
\* mu is at most clipRadius unchanged; of every other sample it multiplies
\* the residual by clipRadius / dist, a positive scalar below 1, so that the
\* sample moves toward mu on the line through mu and the sample and does not
\* reach mu; equal samples of one call get equal outputs.
C38_ClipKeepsOrShrinks ==
  [][result'.op = "influenceClip" =>
       \E v \in {result'.value} :
         \A k \in 1..Len(v.data) :
           \E dist \in {mahalanobisDistance(v.data[k], v.mu, v.Sigma)} :
           \E residual \in {v.data[k][1] - v.mu[1]} :
             /\ dist <= v.radius => v.out[k] = v.data[k]
             /\ dist > v.radius =>
                  /\ 0 < v.radius /\ v.radius < dist
                  /\ v.out[k][1] - v.mu[1] = Quot(residual * v.radius, dist)
                  /\ v.out[k] # v.data[k]
                  /\ v.out[k] # v.mu
                  /\ Sgn(v.out[k][1] - v.mu[1]) = Sgn(residual)
             /\ \A j \in 1..Len(v.data) :
                  v.data[j] = v.data[k] => v.out[j] = v.out[k]]_vars

\* Two equal samples beyond the radius, both moved, under a covariance that
\* is not the identity
C38_Witness ==
  /\ result.op = "influenceClip"
  /\ Len(result.value.data) = 2
  /\ result.value.data[1] = result.value.data[2]
  /\ result.value.data[1] # result.value.mu
  /\ result.value.Sigma # Identity(1)
  /\ result.value.out[1] # result.value.data[1]

\* From iteration iter on with the mean mu, catoniMean performs the
\* iterations up to number last: every iteration before the last moves the
\* mean, the last one leaves the mean that is returned, and when the last is
\* not iteration maxIters its update was below the threshold
RECURSIVE CatoniRuns(_, _, _, _, _, _)
CatoniRuns(data, c, mu, iter, last, out) ==
  \E next \in {CatoniStep(data, mu, c)} :
    IF iter + 1 = last
    THEN /\ out = next
         /\ last < CatoniMaxIters => next = mu
    ELSE /\ next # mu
         /\ CatoniRuns(data, c, next, iter + 1, last, out)

\* catoniMean has performed at least one and at most maxIters iterations
\* and has left the loop early exactly after an iteration whose update was
\* below the threshold
CatoniStopsWhenStill(v) ==
  /\ 1 <= v.iterations /\ v.iterations <= CatoniMaxIters
  /\ CatoniRuns(v.data, v.c, coordinateMedian(v.data), 0, v.iterations, v.out)

\* From round iter on with the estimate fit, mrcd completes the rounds up to
\* number last: the estimate of every round before is inverted, and after
\* round last either all 10 rounds are done and the estimate is returned, or
\* the estimate is singular and the next round throws
RECURSIVE MrcdRuns(_, _, _, _, _, _, _, _)
MrcdRuns(data, alpha, priorCov, fit, iter, last, thrown, out) ==
  IF iter = last
  THEN IF thrown
       THEN last < MrcdRounds /\ RE_isSingular(fit.covariance)
       ELSE /\ last = MrcdRounds
            /\ out.mean = fit.mean /\ out.covariance = fit.covariance
  ELSE /\ ~RE_isSingular(fit.covariance)
       /\ \E next \in {MrcdRound(data, alpha, priorCov, Len(data) \div 2, fit)} :
            MrcdRuns(data, alpha, priorCov, next, iter + 1, last, thrown, out)

====
